---- MODULE Spec2Model ----
(***************************************************************************)
(* The pseudo-3D map component of pages/settings/settings.js (the second   *)
(* Component({...}) of the file): camera model, scene builder, painter,    *)
(* gesture controller, auto-rotate scheduler and the attach/detach glue.   *)
(***************************************************************************)
EXTENDS Integers, Sequences, FiniteSets, TLC

(***************************************************************************)
(* JavaScript numbers.  cameraAngle and cameraHeight are IEEE-754 doubles  *)
(* and are changed by  + deltaX * 0.03,  - deltaY * 0.1,  + delta * 0.01   *)
(* and  + 0.05.  A double is kept here as a sign and a magnitude counted   *)
(* in units of 2^-59 (every value these operations produce from integer    *)
(* pixel deltas is a whole number of such units); the magnitude is a       *)
(* little-endian sequence of NLimbs digits in base 2^16.  Each arithmetic  *)
(* operation computes the exact result and rounds it to 53 significant     *)
(* bits, ties to even, as the hardware does.                               *)
(***************************************************************************)
LimbBits == 4 * 4
Base == 2 ^ LimbBits
NLimbs == 1 + 4
Mantissa == 53

MagZero == [i \in 1..NLimbs |-> 0]

RECURSIVE MagAddFrom(_, _, _, _)
MagAddFrom(a, b, i, c) ==
  IF i > NLimbs THEN << >>
  ELSE LET s == a[i] + b[i] + c
       IN  << s % Base >> \o MagAddFrom(a, b, i + 1, s \div Base)

MagAdd(a, b) == MagAddFrom(a, b, 1, 0)

\* a - b for a >= b
RECURSIVE MagSubFrom(_, _, _, _)
MagSubFrom(a, b, i, br) ==
  IF i > NLimbs THEN << >>
  ELSE LET s == a[i] - b[i] - br
       IN  IF s < 0 THEN << s + Base >> \o MagSubFrom(a, b, i + 1, 1)
                    ELSE << s >> \o MagSubFrom(a, b, i + 1, 0)

MagSub(a, b) == MagSubFrom(a, b, 1, 0)

\* a * k for 0 <= k < 2^15
RECURSIVE MagMulFrom(_, _, _, _)
MagMulFrom(a, k, i, c) ==
  IF i > NLimbs THEN << >>
  ELSE LET s == a[i] * k + c
       IN  << s % Base >> \o MagMulFrom(a, k, i + 1, s \div Base)

MagMulSmall(a, k) == MagMulFrom(a, k, 1, 0)

RECURSIVE MagLessFrom(_, _, _)
MagLessFrom(a, b, i) ==
  IF i = 0 THEN FALSE
  ELSE IF a[i] # b[i] THEN a[i] < b[i]
  ELSE MagLessFrom(a, b, i - 1)

MagLess(a, b) == MagLessFrom(a, b, NLimbs)

\* the number of significant bits of a digit and of a magnitude
BitLen(n) == CHOOSE k \in 0..LimbBits : n < 2 ^ k /\ (k = 0 \/ 2 ^ (k - 1) <= n)

TopLimb(a) == CHOOSE i \in 1..NLimbs : a[i] # 0 /\ \A j \in (i + 1)..NLimbs : a[j] = 0

BitsTo(a, i) == LimbBits * (i - 1) + BitLen(a[i])

MagBitLen(a) == IF \A i \in 1..NLimbs : a[i] = 0 THEN 0 ELSE BitsTo(a, TopLimb(a))

\* 2^s as a magnitude
MagPow2(s) ==
  [i \in 1..NLimbs |-> IF i = (s \div LimbBits) + 1 THEN 2 ^ (s % LimbBits) ELSE 0]

\* round to nearest, ties to even, at 53 significant bits
\* a with its s lowest bits rounded away, 0 < s <= 2 * LimbBits
RoundAt(a, s) ==
  LET lo1  == IF s >= LimbBits THEN a[1] ELSE a[1] % (2 ^ s)
      lo2  == IF s > LimbBits THEN a[2] % (2 ^ (s - LimbBits)) ELSE 0
      low  == lo1 + lo2 * Base
      half == 2 ^ (s - 1)
      qodd == (a[(s \div LimbBits) + 1] \div (2 ^ (s % LimbBits))) % 2 = 1
      cut  == [i \in 1..NLimbs |->
                 IF i = 1 THEN a[1] - lo1
                 ELSE IF i = 2 THEN a[2] - lo2 ELSE a[i]]
  IN  IF low > half \/ (low = half /\ qodd)
      THEN MagAdd(cut, MagPow2(s))
      ELSE cut

RoundExcess(a, s) == IF s <= 0 THEN a ELSE RoundAt(a, s)

Round53(a) == RoundExcess(a, MagBitLen(a) - Mantissa)

Num(neg, mag) == [neg |-> neg /\ mag # MagZero, mag |-> mag]

\* the double nearest to the integer k, |k| < 2^15 (exact)
FromInt(k) ==
  Num(k < 0, MagMulSmall(MagPow2(59), IF k < 0 THEN -k ELSE k))

FNeg(a) == Num(~a.neg, a.mag)

\* the exact sum of a and b, not yet rounded
ExactSum(a, b, aLess) ==
  [neg |-> IF aLess THEN b.neg ELSE a.neg,
   mag |-> IF a.neg = b.neg THEN MagAdd(a.mag, b.mag)
           ELSE IF aLess THEN MagSub(b.mag, a.mag)
           ELSE MagSub(a.mag, b.mag)]

Rounded(x) == Num(x.neg, Round53(x.mag))

FAdd(a, b) == Rounded(ExactSum(a, b, MagLess(a.mag, b.mag)))

FSub(a, b) == FAdd(a, FNeg(b))

\* the product taken without the sign of k
FMulIntUnsigned(k, c) ==
  Num(c.neg, Round53(MagMulSmall(c.mag, IF k < 0 THEN -k ELSE k)))

\* k * c for an integer k and a double c
FMulInt(k, c) ==
  Num((k < 0) # c.neg, Round53(MagMulSmall(c.mag, IF k < 0 THEN -k ELSE k)))

FLess(a, b) ==
  IF a.neg # b.neg THEN a.neg
  ELSE IF a.neg THEN MagLess(b.mag, a.mag)
  ELSE MagLess(a.mag, b.mag)

FLeq(a, b) == ~FLess(b, a)

\* Math.max and Math.min
FMax(a, b) == IF FLess(a, b) THEN b ELSE a
FMin(a, b) == IF FLess(b, a) THEN b ELSE a

\* the literals of the source, as the doubles the parser produces
Lit003 == Num(FALSE, << 15728, 55050, 28835, 61, 0 >>)
Lit005 == Num(FALSE, << 26216, 26214, 26214, 102, 0 >>)
Lit01  == Num(FALSE, << 52432, 52428, 52428, 204, 0 >>)
Lit001 == Num(FALSE, << 5243, 18350, 31457, 20, 0 >>)
Lit05  == Num(FALSE, MagPow2(58))

(***************************************************************************)
(* JavaScript values.  null is Null; an object is a record and a missing   *)
(* property is a missing field; an array is a sequence.  A timer id is a   *)
(* positive integer and 0 stands for a null timer field (both falsy).      *)
(***************************************************************************)
Null == [isNull |-> TRUE]
Ctx  == [context |-> "2d"]
NoArg == [none |-> TRUE]

Has(o, f) == f \in DOMAIN o

\* the array whose elements the function f lists
Array(f) == f \o << >>

\* (o.f || 0) for a numeric property
OrZero(o, f) == IF Has(o, f) THEN o[f] ELSE 0

\* the keys of a floors object are decimal strings; parseInt reads them and
\* Object.entries lists integer-like keys in ascending numeric order
FloorKeys == << "1", "2", "3" >>

parseInt(k) == CHOOSE i \in 1..Len(FloorKeys) : FloorKeys[i] = k

ObjectKeys(o) == SelectSeq(FloorKeys, LAMBDA k : k \in DOMAIN o)

(***************************************************************************)
(* The map descriptions and paths a host hands to the component.           *)
(***************************************************************************)
RoomA == [id |-> "A", name |-> "Room A", x |-> 3, y |-> 2]
RoomB == [id |-> "B", name |-> "Room B", x |-> 2, y |-> 4]
RoomC == [id |-> "C", name |-> "Room C", x |-> 6, y |-> 1]

\* the demo data of createDemoScene: a flat map, no floors
DemoData ==
  [name |-> "Demo Map", width |-> 10, height |-> 8,
   entrance |-> [x |-> 1, y |-> 1],
   rooms |-> << [id |-> "A", name |-> "Room A", x |-> 3, y |-> 2],
                [id |-> "B", name |-> "Room B", x |-> 6, y |-> 2],
                [id |-> "C", name |-> "Room C", x |-> 3, y |-> 5],
                [id |-> "D", name |-> "Room D", x |-> 7, y |-> 6] >>,
   grid |-> << >>]

\* a multi-floor description with an empty floors object
MapNoFloors == [name |-> "Empty", floors |-> << >>]

\* flagged 3D but without a floors property
MapFlagOnly == [name |-> "Flag", is_3d |-> TRUE]

\* one floor, one room, a global entrance
MapOne ==
  [floors |-> [k \in {"1"} |-> [name |-> "Ground", rooms |-> << RoomA >>]],
   entrance |-> [x |-> 1, y |-> 1]]

\* two floors, no entrance, a stair and an elevator
MapTwo ==
  [floors |-> [k \in {"1", "2"} |->
                 IF k = "1" THEN [name |-> "Ground", rooms |-> << RoomA, RoomB >>]
                 ELSE [name |-> "Upper", rooms |-> << RoomC >>]],
   vertical_connections |->
     << [start_floor |-> 1, end_floor |-> 2, start_pos |-> [x |-> 5, y |-> 5],
         type |-> "stair"],
        [start_floor |-> 1, end_floor |-> 2, start_pos |-> [x |-> 7, y |-> 1],
         type |-> "elevator"] >>]

\* two floors and a global entrance
MapBoth ==
  [floors |-> [k \in {"1", "2"} |->
                 IF k = "1" THEN [name |-> "Ground", rooms |-> << RoomA >>]
                 ELSE [name |-> "Upper", rooms |-> << RoomC >>]],
   entrance |-> [x |-> 4, y |-> 3]]

Maps == { DemoData, MapNoFloors, MapFlagOnly, MapOne, MapTwo, MapBoth }

Path3 == << << 1, 1, 1 >>, << 3, 2, 1 >>, << 3, 2, 1 >> >>

Paths == { << >>, Path3 }

MaxFloor == 2

(***************************************************************************)
(* State.                                                                  *)
(*   data     this.data: the properties and the data fields                *)
(*   surface  the 2D context: the draw calls since the last full clear,    *)
(*            the current globalAlpha (percent) and the save() stack       *)
(*   timers   the host's timers: the live setInterval ids, the pending     *)
(*            setTimeout callbacks (named by the interval started with     *)
(*            them), the number of ids handed out, the number of ticks     *)
(*            delivered                                                    *)
(*   pc       how far the asynchronous surface acquisition has got         *)
(*   detached whether detached() has run                                   *)
(*   trace    the handler that ran last and the routines it called         *)
(*   input    that handler's argument                                      *)
(*   emitted  the events that handler triggered                            *)
(*   moves    the consecutive onTouchMove updates that ran last            *)
(*   events   how many page events and timer callbacks have been delivered *)
(*   shade    the last call of a shading helper: its arguments and result   *)
(*   voice    the local voice service (utils/localVoiceService.js) and the  *)
(*            batch playback running on it                                 *)
(*   nav      the navigation page (pages/navigation/navigation.js): its     *)
(*            data, its pending requests and timers                        *)
(*   recent   the recent maps: the list in the storage under 'recentMaps'   *)
(*            and the part of it the index page shows                      *)
(***************************************************************************)
VARIABLES data, surface, timers, pc, detached, trace, input, emitted, moves,
          events, shade, voice, nav, recent

vars == << data, surface, timers, pc, detached, trace, input, emitted, moves,
           events, shade, voice, nav, recent >>

\* what the pseudo-3D component and the shading helpers own
component == << data, surface, timers, pc, detached, trace, input, emitted,
                moves, events, shade >>

\* what the services and the pages beside the component own
services == << voice, nav, recent >>

InitData ==
  [mapData |-> Null, currentFloor |-> 1, pathData |-> << >>,
   canvasWidth |-> 600, canvasHeight |-> 400,
   floors |-> << >>, loading |-> TRUE,
   showConnections |-> TRUE, showLabels |-> TRUE, showPath |-> TRUE,
   canvasContext |-> Null,
   isRotating |-> FALSE, lastTouchX |-> 0, lastTouchY |-> 0,
   cameraAngle |-> FromInt(3), cameraHeight |-> FromInt(15),
   cameraDistance |-> 20, showHint |-> TRUE,
   isAutoRotating |-> FALSE, autoRotationTimer |-> 0,
   panelCollapsed |-> TRUE,
   renderObjects |-> << >>]

InitSurface == [ops |-> << >>, alpha |-> 100, stack |-> << >>]

InitTimers == [intervals |-> {}, timeouts |-> {}, seq |-> 0, ticks |-> 0]

\* no shading helper has been called
NoShade == [fn |-> "none"]

\* the voice service as its constructor leaves it; no batch has been asked
\* for
InitVoice ==
  [currentAudio |-> Null, isPlaying |-> FALSE, audioQueue |-> << >>,
   dequeued |-> << >>, others |-> 0,
   batch |-> [phase |-> "idle", index |-> 0, keys |-> << >>]]

\* the navigation page's data as declared, with nothing asked for yet
InitNav ==
  [mapId |-> 0, mapData |-> Null, isReal3DMap |-> FALSE, currentFloor |-> 1,
   targetRoom |-> Null, allRooms |-> {}, mapGrid |-> << >>, loading |-> TRUE,
   requests |-> << >>, runs |-> << >>, navTimers |-> 0, pathRequests |-> 0,
   ran |-> "none", error |-> Null, userEvents |-> 0, unloaded |-> FALSE]

\* an empty storage, and an index page that shows no recent map
InitRecent == [stored |-> << >>, recentMaps |-> << >>, saved |-> Null]

\* the services and pages beside the component as they start
ServicesStart == voice = InitVoice /\ nav = InitNav /\ recent = InitRecent

Init ==
  /\ data = InitData
  /\ surface = InitSurface
  /\ timers = InitTimers
  /\ pc = "created"
  /\ detached = FALSE
  /\ trace = << >>
  /\ input = NoArg
  /\ emitted = << >>
  /\ moves = << >>
  /\ events = 0
  /\ shade = NoShade
  /\ ServicesStart

(***************************************************************************)
(* A handler runs on the record M of everything it can change and returns  *)
(* the record after it; Commit makes that the next state.                  *)
(***************************************************************************)
Cur(h) ==
  [d |-> data, s |-> surface, t |-> timers, tr |-> << h >>, ev |-> << >>]

Commit(m, in, mv) ==
  /\ data' = m.d
  /\ surface' = m.s
  /\ timers' = m.t
  /\ trace' = m.tr
  /\ emitted' = m.ev
  /\ input' = in
  /\ moves' = mv

Called(m, routine) == [m EXCEPT !.tr = Append(@, routine)]

\* the 2D context
Draw(m, op, arg) ==
  [m EXCEPT !.s.ops = Append(@, [op |-> op, arg |-> arg, alpha |-> m.s.alpha])]

ClearRect(m) ==
  [m EXCEPT !.s.ops = << [op |-> "clearRect", arg |-> NoArg, alpha |-> m.s.alpha] >>]

CtxSave(m) ==
  Draw([m EXCEPT !.s.stack = Append(@, m.s.alpha)], "save", NoArg)

CtxRestore(m) ==
  IF m.s.stack = << >> THEN Draw(m, "restore", NoArg)
  ELSE Draw([m EXCEPT !.s.alpha = m.s.stack[Len(m.s.stack)],
                      !.s.stack = SubSeq(@, 1, Len(@) - 1)], "restore", NoArg)

SetAlpha(m, a) == [m EXCEPT !.s.alpha = a]

setData(m, fields) == [m EXCEPT !.d = fields @@ @]

(***************************************************************************)
(* Array.prototype.sort: a stable sort.  after[i, j] says that the         *)
(* comparator puts element i behind element j (it returned a number > 0).  *)
(* Element j comes out before element i when the comparator puts i behind  *)
(* j, or when it ties them and j was the earlier one.  The result lists    *)
(* the indices 1..n in sorted order.                                       *)
(***************************************************************************)
\* an unstable order: of two tied elements the later one comes out first
PrecedesLater(j, i, after) == after[i, j] \/ (~after[j, i] /\ j > i)

Precedes(j, i, after) == after[i, j] \/ (~after[j, i] /\ j < i)

\* the place each element takes
Places(n, after) ==
  Array([i \in 1..n |-> 1 + Cardinality({ j \in 1..n : Precedes(j, i, after) })])

Inverse(place) ==
  [k \in 1..Len(place) |-> CHOOSE i \in 1..Len(place) : place[i] = k]

ArraySort(n, after) == Inverse(Places(n, after))

RECURSIVE Flatten(_)
Flatten(ss) == IF ss = << >> THEN << >> ELSE Head(ss) \o Flatten(Tail(ss))

(***************************************************************************)
(* Scene builder.                                                          *)
(***************************************************************************)
FloorSpacing == 60

\* the offset counted from floor 0
floorYFromZero(floorNum) == floorNum * FloorSpacing

floorYOf(floorNum) == (floorNum - 1) * FloorSpacing

\* the floor plane and the rooms of one floor entry
FloorAndRooms(floorData, floorNum, floorY) ==
  << [type |-> "floor", floorId |-> floorNum, y |-> floorY,
      data |-> floorData, visible |-> TRUE] >>
  \o (IF Has(floorData, "rooms") /\ Len(floorData.rooms) > 0
      THEN [i \in 1..Len(floorData.rooms) |->
              [type |-> "room", floorId |-> floorNum, y |-> floorY - 20,
               x |-> OrZero(floorData.rooms[i], "x"),
               z |-> OrZero(floorData.rooms[i], "y"),
               data |-> floorData.rooms[i], visible |-> TRUE]]
      ELSE << >>)

\* the entrance added for the ground floor only
EntranceOnGroundFloor(mapData, floorNum, floorY) ==
  IF Has(mapData, "entrance") /\ floorNum = 1
  THEN << [type |-> "entrance", floorId |-> floorNum, y |-> floorY - 15,
           x |-> OrZero(mapData.entrance, "x"),
           z |-> OrZero(mapData.entrance, "y"),
           data |-> mapData.entrance, visible |-> TRUE] >>
  ELSE << >>

\* the entrance, added once for every floor entry
EntranceObjects(mapData, floorNum, floorY) ==
  IF Has(mapData, "entrance")
  THEN << [type |-> "entrance", floorId |-> floorNum, y |-> floorY - 15,
           x |-> OrZero(mapData.entrance, "x"),
           z |-> OrZero(mapData.entrance, "y"),
           data |-> mapData.entrance, visible |-> TRUE] >>
  ELSE << >>

\* a floor's objects without the entrance
FloorObjectsNoEntrance(mapData, floorId) ==
  FloorAndRooms(mapData.floors[floorId], parseInt(floorId), floorYOf(parseInt(floorId)))

FloorObjects(mapData, floorId) ==
  FloorAndRooms(mapData.floors[floorId], parseInt(floorId), floorYOf(parseInt(floorId)))
    \o EntranceObjects(mapData, parseInt(floorId), floorYOf(parseInt(floorId)))

ConnectionObjects(d) ==
  IF d.showConnections /\ Has(d.mapData, "vertical_connections")
  THEN [i \in 1..Len(d.mapData.vertical_connections) |->
          LET conn == d.mapData.vertical_connections[i]
          IN  [type |-> "connection", startFloor |-> conn.start_floor,
               endFloor |-> conn.end_floor, x |-> conn.start_pos.x,
               z |-> conn.start_pos.y, data |-> conn, visible |-> TRUE]]
  ELSE << >>

\* the path markers numbered from 1
PathObjectsFromOne(d) ==
  IF d.showPath /\ Len(d.pathData) > 0
  THEN [k \in 1..Len(d.pathData) |->
          [type |-> "path", x |-> d.pathData[k][1], z |-> d.pathData[k][2],
           floorId |-> d.pathData[k][3], y |-> (d.pathData[k][3] - 1) * 60 - 30,
           index |-> k, data |-> d.pathData[k], visible |-> TRUE]]
  ELSE << >>

PathObjects(d) ==
  IF d.showPath /\ Len(d.pathData) > 0
  THEN LET idx == SelectSeq([i \in 1..Len(d.pathData) |-> i],
                            LAMBDA i : Len(d.pathData[i]) >= 3)
       IN  [k \in 1..Len(idx) |->
              LET point == d.pathData[idx[k]]
              IN  [type |-> "path", x |-> point[1], z |-> point[2],
                   floorId |-> point[3], y |-> (point[3] - 1) * 60 - 30,
                   index |-> idx[k] - 1, data |-> point, visible |-> TRUE]]
  ELSE << >>

BuildObjects(d) ==
  LET floors == IF Has(d.mapData, "floors") THEN d.mapData.floors ELSE << >>
      keys   == ObjectKeys(floors)
  IN  IF Len(keys) = 0 THEN << >>
      ELSE Flatten([i \in 1..Len(keys) |-> FloorObjects(d.mapData, keys[i])])
             \o ConnectionObjects(d) \o PathObjects(d)

prepareRenderObjects(m) ==
  IF m.d.mapData = Null THEN setData(Called(m, "prepareRenderObjects"), [renderObjects |-> << >>])
  ELSE setData(Called(m, "prepareRenderObjects"), [renderObjects |-> BuildObjects(m.d)])

(***************************************************************************)
(* Shading helpers.  A string is [str |-> its characters]; the string      *)
(* rgb(r, g, b) a helper builds is [rgb |-> << r, g, b >>].                 *)
(***************************************************************************)
Lit03 == Num(FALSE, << 26208, 26214, 26214, 614, 0 >>)

HexDigits ==
  << "0", "1", "2", "3", "4", "5", "6", "7", "8", "9", "a", "b", "c", "d", "e", "f" >>

IsHex(c) == \E i \in 1..Len(HexDigits) : HexDigits[i] = c

HexValue(c) == (CHOOSE i \in 1..Len(HexDigits) : HexDigits[i] = c) - 1

RECURSIVE ParseHexFrom(_, _, _)
ParseHexFrom(s, i, acc) ==
  IF i > Len(s) \/ ~IsHex(s[i]) THEN acc
  ELSE ParseHexFrom(s, i + 1, acc * 16 + HexValue(s[i]))

\* parseInt(s, 16): the number the longest prefix of hexadecimal digits
\* spells, NaN when s starts with none
parseInt16(s) ==
  IF s = << >> \/ ~IsHex(s[1]) THEN [nan |-> TRUE]
  ELSE [nan |-> FALSE, v |-> ParseHexFrom(s, 1, 0)]

\* the operand of >> and &: NaN becomes 0 (the numbers here are below 2^31)
ToInt32(n) == IF n.nan THEN 0 ELSE n.v

\* num >> 16, (num >> 8) & 0x00FF, num & 0x0000FF
Channels(num) == << num \div 65536, (num \div 256) % 256, num % 256 >>

\* Math.floor
FFloor(a) ==
  LET whole == (a.mag[4] \div 2 ^ 11) + a.mag[5] * 2 ^ 5
      part  == a.mag[1] # 0 \/ a.mag[2] # 0 \/ a.mag[3] # 0 \/ a.mag[4] % 2 ^ 11 # 0
  IN  IF a.neg THEN -(whole + IF part THEN 1 ELSE 0) ELSE whole

Darker(c, amount) ==
  FFloor(FMax(FromInt(0), FMulInt(c, FSub(FromInt(1), amount))))

Lighter(c, amount) ==
  FFloor(FMin(FromInt(255), FAdd(FromInt(c), FMulInt(255 - c, amount))))

\* color.startsWith('#') throws a TypeError when color is no string
TypeError == [throws |-> "TypeError"]

StartsWithHash(s) == s # << >> /\ s[1] = "#"

darkenColor(color, amount) ==
  IF ~Has(color, "str") THEN TypeError
  ELSE IF StartsWithHash(color.str)
  THEN [rgb |-> [i \in 1..3 |->
                   Darker(Channels(ToInt32(parseInt16(Tail(color.str))))[i], amount)]]
  ELSE color

lightenColor(color, amount) ==
  IF ~Has(color, "str") THEN TypeError
  ELSE IF StartsWithHash(color.str)
  THEN [rgb |-> [i \in 1..3 |->
                   Lighter(Channels(ToInt32(parseInt16(Tail(color.str))))[i], amount)]]
  ELSE color

(***************************************************************************)
(* Painter.                                                                *)
(***************************************************************************)
\* x + z * 0.5 + y * 0.1 with missing coordinates read as 0
DepthOf(o) ==
  FAdd(FAdd(FromInt(OrZero(o, "x")), FMulInt(OrZero(o, "z"), Lit05)),
       FMulInt(OrZero(o, "y"), Lit01))

\* the comparator of renderScene returned a number > 0 for (a, b), whose
\* depths are depthA and depthB
SortsAfter(a, b, depthA, depthB) ==
  LET floorDiff == OrZero(a, "floorId") - OrZero(b, "floorId")
  IN  IF floorDiff # 0 THEN floorDiff > 0
      ELSE FLess(depthA, depthB)

Permuted(objs, perm) == Array([k \in 1..Len(objs) |-> objs[perm[k]]])

SortedBy(objs, depth) ==
  Permuted(objs,
           ArraySort(Len(depth),
                     [p \in (1..Len(depth)) \X (1..Len(depth)) |->
                        SortsAfter(objs[p[1]], objs[p[2]], depth[p[1]], depth[p[2]])]))

sortedObjects(objs) ==
  SortedBy(objs, Array([i \in 1..Len(objs) |-> DepthOf(objs[i])]))

renderUI(m) == m

renderFloorBase(m, floor) ==
  LET isCurrentFloor == floor.floorId = m.d.currentFloor
      m1 == Draw(CtxSave(Called(m, "renderFloorBase")), "floorBase",
                 [obj |-> floor, isCurrentFloor |-> isCurrentFloor])
      m2 == IF m.d.showLabels
            THEN Draw(m1, "fillText",
                      [text |-> IF Has(floor.data, "name") THEN floor.data.name
                                ELSE "Floor"])
            ELSE m1
  IN  CtxRestore(m2)

RECURSIVE RenderFloorsFrom(_, _, _)
RenderFloorsFrom(m, floors, i) ==
  IF m.d.canvasContext = Null \/ i > Len(floors) THEN m
  ELSE LET floor == floors[i]
           m1 == Draw(CtxSave(m), "translate",
                      [floorY |-> (floor.floorId - 1) * 100])
           m2 == renderFloorBase(m1, floor)
           m3 == IF floor.floorId # m.d.currentFloor THEN SetAlpha(m2, 40) ELSE m2
       IN  RenderFloorsFrom(CtxRestore(m3), floors, i + 1)

renderFloorFoundations(m, objects) ==
  RenderFloorsFrom(m, SelectSeq(objects, LAMBDA obj : obj.type = "floor"), 1)

renderRoom3D(m, room) ==
  LET m1 == Draw(CtxSave(m), "room", [obj |-> room])
      m2 == IF m.d.showLabels /\ Has(room.data, "name")
            THEN Draw(m1, "fillText", [text |-> room.data.name])
            ELSE m1
  IN  CtxRestore(m2)

renderEntrance3D(m, entrance) ==
  LET m1 == Draw(CtxSave(m), "entrance", [obj |-> entrance])
      m2 == IF m.d.showLabels THEN Draw(m1, "fillText", [text |-> "Entrance"])
            ELSE m1
  IN  CtxRestore(m2)

renderConnection3D(m, conn) ==
  LET color == IF conn.data.type = "elevator" THEN "#ff6b6b"
               ELSE IF conn.data.type = "stair" THEN "#4ecdc4"
               ELSE "#ffa500"
  IN  CtxRestore(Draw(CtxSave(m), "connection", [obj |-> conn, color |-> color]))

renderPathPoint3D(m, pathPoint) ==
  CtxRestore(Draw(CtxSave(m), "path", [obj |-> pathPoint, color |-> "#ff4d4f"]))

\* renderPathPoint, the painter of coloured markers: no routine calls it
renderPathPointColor(pathPoint, pathData) ==
  IF pathPoint.index = 0 THEN "#00ff00"
  ELSE IF pathPoint.index = Len(pathData) - 1 THEN "#ff0000"
  ELSE "#ffff00"

\* the object renderer without its closing restore
renderObjectNoRestore(m, obj) ==
  LET m1 == Draw(CtxSave(m), "translate",
                 [x |-> OrZero(obj, "x"), z |-> OrZero(obj, "z"),
                  y |-> OrZero(obj, "y")])
  IN  CASE obj.type = "room" -> renderRoom3D(m1, obj)
        [] obj.type = "entrance" -> renderEntrance3D(m1, obj)
        [] obj.type = "connection" -> renderConnection3D(m1, obj)
        [] obj.type = "path" -> renderPathPoint3D(m1, obj)
        [] OTHER -> m1

renderObject(m, obj) ==
  LET floorOffset == IF Has(obj, "floorId") THEN [v |-> (obj.floorId - 1) * 100]
                     ELSE [nan |-> TRUE]
      m1 == Draw(CtxSave(m), "translate",
                 [x |-> OrZero(obj, "x"), z |-> OrZero(obj, "z"),
                  y |-> OrZero(obj, "y"), floorOffset |-> floorOffset])
      m2 == CASE obj.type = "room" -> renderRoom3D(m1, obj)
              [] obj.type = "entrance" -> renderEntrance3D(m1, obj)
              [] obj.type = "connection" -> renderConnection3D(m1, obj)
              [] obj.type = "path" -> renderPathPoint3D(m1, obj)
              [] OTHER -> m1
  IN  CtxRestore(m2)

RECURSIVE RenderObjectsFrom(_, _, _)
RenderObjectsFrom(m, objs, i) ==
  IF m.d.canvasContext = Null \/ i > Len(objs) THEN m
  ELSE RenderObjectsFrom(IF objs[i].visible THEN renderObject(m, objs[i]) ELSE m,
                         objs, i + 1)

renderWorldObjects(m, objects) ==
  RenderObjectsFrom(m, SelectSeq(objects, LAMBDA obj : obj.type # "floor"), 1)

\* the passes in the other order: the slabs painted over the objects
renderSortedObjectsFirst(m, sorted) ==
  renderFloorFoundations(renderWorldObjects(m, sorted), sorted)

\* the two passes of renderScene over the sorted list
renderSorted(m, sorted) ==
  renderWorldObjects(renderFloorFoundations(m, sorted), sorted)

Background(m) ==
  Draw(ClearRect(m), "fillRect", [style |-> "gradient"])

\* the camera transform of renderScene
CameraTransform(m) ==
  LET m2 == Draw(CtxSave(m), "translate", [anchor |-> "center"])
      m3 == Draw(m2, "scale", [cameraHeight |-> m.d.cameraHeight])
      m4 == Draw(m3, "rotate", [cameraAngle |-> m.d.cameraAngle])
  IN  Draw(m4, "transform", [shear |-> "-0.3"])

\* the painter applying the camera transform before it looks at the list
paintSceneTransformFirst(m) ==
  IF Len(m.d.renderObjects) = 0
  THEN renderUI(CtxRestore(Draw(CameraTransform(Background(Called(m, "renderScene"))),
                                "fillText", [text |-> "No 3D content to display"])))
  ELSE renderUI(CtxRestore(renderSorted(
                  CameraTransform(Background(Called(m, "renderScene"))),
                  sortedObjects(m.d.renderObjects))))

\* renderScene once it holds a context
paintScene(m) ==
  IF Len(m.d.renderObjects) = 0
  THEN renderUI(Draw(Background(Called(m, "renderScene")), "fillText",
                     [text |-> "No 3D content to display"]))
  ELSE renderUI(CtxRestore(renderSorted(
                  CameraTransform(Background(Called(m, "renderScene"))),
                  sortedObjects(m.d.renderObjects))))

\* renderScene without its test of the context
renderSceneAnyway(m) == paintScene(m)

renderScene(m) == IF m.d.canvasContext = Null THEN m ELSE paintScene(m)

clearCanvas(m) ==
  IF m.d.canvasContext # Null
  THEN Draw(ClearRect(m), "fillRect", [style |-> "#f0f8ff"])
  ELSE m

buildMap3D(m) ==
  IF m.d.canvasContext = Null THEN m
  ELSE IF m.d.mapData = Null THEN m
  ELSE renderScene(prepareRenderObjects(clearCanvas(Called(m, "buildMap3D"))))

renderNoDataScene(m) ==
  IF m.d.canvasContext = Null THEN m
  ELSE
    LET m1 == Background(Called(m, "renderNoDataScene"))
        m2 == Draw(m1, "fillText", [text |-> "Current is 2D map"])
        m3 == Draw(m2, "fillText", [text |-> "Please select 3D map to view 3D effect"])
    IN  Draw(m3, "fillText", [text |-> "icon"])

(***************************************************************************)
(* Data-change and floor handlers.                                         *)
(***************************************************************************)
FloorList(floors, keys) ==
  Array([i \in 1..Len(keys) |->
           [id |-> parseInt(keys[i]), name |-> floors[keys[i]].name,
            roomCount |-> IF Has(floors[keys[i]], "rooms")
                          THEN Len(floors[keys[i]].rooms) ELSE 0]])

SortedById(list) ==
  Permuted(list,
           ArraySort(Len(list),
                     [q \in (1..Len(list)) \X (1..Len(list)) |->
                        list[q[1]].id - list[q[2]].id > 0]))

FloorDescriptors(newData) ==
  IF Has(newData, "floors")
  THEN SortedById(FloorList(newData.floors, ObjectKeys(newData.floors)))
  ELSE << >>

onMapDataChange(m, newData) ==
  IF newData = Null THEN m
  ELSE IF ~Has(newData, "floors") /\ ~Has(newData, "is_3d")
  THEN renderNoDataScene(setData(Called(m, "onMapDataChange"),
                                 [floors |-> << >>, renderObjects |-> << >>]))
  ELSE LET m1 == setData(Called(m, "onMapDataChange"),
                         [floors |-> FloorDescriptors(newData)])
       IN  IF m1.d.canvasContext # Null /\ Has(newData, "floors")
           THEN buildMap3D(m1)
           ELSE m1

createDemoScene(m) ==
  buildMap3D(onMapDataChange(setData(Called(m, "createDemoScene"),
                                     [mapData |-> DemoData]), DemoData))

\* the first paint putting the demo data in place of any map
renderInitialSceneDemo(m) ==
  IF m.d.canvasContext = Null THEN m
  ELSE createDemoScene(Draw(Draw(Called(m, "renderInitialScene"), "fillRect",
                                 [style |-> "gradient"]),
                            "fillText", [text |-> "Loading 3D map..."]))

renderInitialScene(m) ==
  IF m.d.canvasContext = Null THEN m
  ELSE
    LET m1 == Draw(Called(m, "renderInitialScene"), "fillRect", [style |-> "gradient"])
        m2 == Draw(m1, "fillText", [text |-> "Loading 3D map..."])
    IN  IF m.d.mapData # Null THEN buildMap3D(m2) ELSE createDemoScene(m2)

\* this.data.camera is never set, so the refocus does nothing
focusOnFloor(m, floorId) ==
  IF Has(m.d, "camera") THEN renderScene(m) ELSE m

\* the selection without its notification
onFloorSelectSilent(m, floorId) ==
  buildMap3D(focusOnFloor(setData(m, [currentFloor |-> floorId]), floorId))

onFloorSelect(m, floorId) ==
  LET m1 == setData(m, [currentFloor |-> floorId])
      m2 == buildMap3D(focusOnFloor(m1, floorId))
  IN  [m2 EXCEPT !.ev = Append(@, [name |-> "floorchange", floor |-> floorId])]

(***************************************************************************)
(* Gesture controller and camera model.                                    *)
(***************************************************************************)
\* touch.x || touch.clientX
Coord(touch, f, g) == IF Has(touch, f) /\ touch[f] # 0 THEN touch[f] ELSE touch[g]

onTouchStart(m, e) ==
  IF Len(e.touches) = 1
  THEN setData(m, [isRotating |-> TRUE,
                   lastTouchX |-> Coord(e.touches[1], "x", "clientX"),
                   lastTouchY |-> Coord(e.touches[1], "y", "clientY"),
                   showHint |-> FALSE])
  ELSE m

TouchMoves(d, e) == d.isRotating /\ Len(e.touches) = 1

\* the clamp without its lower limit
ClampAbove(h) == FMin(FromInt(35), h)

Clamp(h) == FMax(FromInt(2), FMin(FromInt(35), h))

\* the move handler without its guard
onTouchMoveUnguarded(m, e) ==
  LET currentX == Coord(e.touches[1], "x", "clientX")
      currentY == Coord(e.touches[1], "y", "clientY")
  IN  renderScene(setData(m,
        [cameraAngle |-> FAdd(m.d.cameraAngle,
                              FMulInt(currentX - m.d.lastTouchX, Lit003)),
         cameraHeight |-> Clamp(FSub(m.d.cameraHeight,
                                     FMulInt(currentY - m.d.lastTouchY, Lit01))),
         lastTouchX |-> currentX,
         lastTouchY |-> currentY]))

onTouchMove(m, e) ==
  IF ~TouchMoves(m.d, e) THEN m
  ELSE
    LET currentX == Coord(e.touches[1], "x", "clientX")
        currentY == Coord(e.touches[1], "y", "clientY")
        deltaX   == currentX - m.d.lastTouchX
        deltaY   == currentY - m.d.lastTouchY
        newCameraAngle  == FAdd(m.d.cameraAngle, FMulInt(deltaX, Lit003))
        newCameraHeight == Clamp(FSub(m.d.cameraHeight, FMulInt(deltaY, Lit01)))
    IN  renderScene(setData(m, [cameraAngle |-> newCameraAngle,
                                cameraHeight |-> newCameraHeight,
                                lastTouchX |-> currentX,
                                lastTouchY |-> currentY]))

onTouchEnd(m) == setData(m, [isRotating |-> FALSE])

\* a wheel handler that builds the scene anew
onMouseWheelRebuild(m, delta) ==
  buildMap3D(setData(m, [cameraHeight |->
                           Clamp(FAdd(m.d.cameraHeight, FMulInt(delta, Lit001)))]))

onMouseWheel(m, delta) ==
  LET newHeight == Clamp(FAdd(m.d.cameraHeight, FMulInt(delta, Lit001)))
  IN  renderScene(setData(m, [cameraHeight |-> newHeight]))

\* a preset that leaves the height as it is
PresetViewKeepHeight(m, angle, height, distance) ==
  Called(renderScene(setData(m, [cameraAngle |-> FromInt(angle),
                                 cameraDistance |-> distance])), "wx.showToast")

PresetView(m, angle, height, distance) ==
  Called(renderScene(setData(m, [cameraAngle |-> FromInt(angle),
                                 cameraHeight |-> FromInt(height),
                                 cameraDistance |-> distance])), "wx.showToast")

resetView(m) == PresetView(m, 3, 15, 20)

topView(m) == PresetView(m, 0, 25, 15)

sideView(m) == PresetView(m, 8, 12, 25)

perspectiveView(m) == PresetView(m, 5, 18, 22)

onToggleConnections(m, value) == buildMap3D(setData(m, [showConnections |-> value]))

onToggleLabels(m, value) == buildMap3D(setData(m, [showLabels |-> value]))

onTogglePath(m, value) == buildMap3D(setData(m, [showPath |-> value]))

(***************************************************************************)
(* Auto-rotate scheduler and teardown.                                     *)
(***************************************************************************)
clearInterval(m, id) == [Called(m, "clearInterval") EXCEPT !.t.intervals = @ \ {id}]

\* a start that sets no timeout
startAutoRotationNoTimeout(m) ==
  LET m1 == IF m.d.autoRotationTimer # 0
            THEN clearInterval(m, m.d.autoRotationTimer) ELSE m
      timer == m.t.seq + 1
  IN  setData([m1 EXCEPT !.t.seq = timer, !.t.intervals = @ \cup {timer}],
              [autoRotationTimer |-> timer, isAutoRotating |-> TRUE])

\* a start that leaves the interval before it running
startAutoRotationKeepInterval(m) ==
  LET timer == m.t.seq + 1
      m2 == [m EXCEPT !.t.seq = timer, !.t.intervals = @ \cup {timer}]
      m3 == setData(m2, [autoRotationTimer |-> timer, isAutoRotating |-> TRUE])
  IN  [m3 EXCEPT !.t.timeouts = @ \cup {timer}]

startAutoRotation(m) ==
  LET m1 == IF m.d.autoRotationTimer # 0
            THEN clearInterval(m, m.d.autoRotationTimer) ELSE m
      timer == m.t.seq + 1
      m2 == [m1 EXCEPT !.t.seq = timer, !.t.intervals = @ \cup {timer}]
      m3 == setData(m2, [autoRotationTimer |-> timer, isAutoRotating |-> TRUE])
  IN  [m3 EXCEPT !.t.timeouts = @ \cup {timer}]

stopAutoRotation(m) ==
  IF m.d.autoRotationTimer # 0
  THEN setData(clearInterval(m, m.d.autoRotationTimer),
               [autoRotationTimer |-> 0, isAutoRotating |-> FALSE])
  ELSE m

\* the callback without its test of isRotating
autoRotationTickAlways(m) ==
  renderScene(setData(m, [cameraAngle |-> FAdd(m.d.cameraAngle, Lit005)]))

\* the setInterval callback
autoRotationTick(m) ==
  IF ~m.d.isRotating
  THEN renderScene(setData(m, [cameraAngle |-> FAdd(m.d.cameraAngle, Lit005)]))
  ELSE m

\* the teardown without stopAutoRotation
cleanup3DKeepTimer(m) ==
  setData(m, [canvasContext |-> Null, renderObjects |-> << >>, isRotating |-> FALSE,
              showHint |-> TRUE, panelCollapsed |-> FALSE])

cleanup3D(m) ==
  setData(stopAutoRotation(m),
          [canvasContext |-> Null, renderObjects |-> << >>, isRotating |-> FALSE,
           showHint |-> TRUE, panelCollapsed |-> FALSE])

(***************************************************************************)
(* Actions: one per lifetime callback, asynchronous callback, observer,    *)
(* event handler and timer callback.  A page event reaches the component   *)
(* only between attached() and detached(); query and timer callbacks       *)
(* arrive whenever the host delivers them.                                 *)
(***************************************************************************)
Live == pc # "created" /\ ~detached

Rect == [width |-> 300, height |-> 200]

Handler(m) == Commit(m, NoArg, << >>) /\ UNCHANGED << pc, detached >>

HandlerOn(m, in) == Commit(m, in, << >>) /\ UNCHANGED << pc, detached >>

\* attached(): init3DScene issues the first measurement
Attached ==
  /\ pc = "created" /\ ~detached
  /\ pc' = "rect"
  /\ Commit(Cur("attached"), NoArg, << >>)
  /\ UNCHANGED detached

\* the boundingClientRect callback of init3DScene; initThreeJS asks again
RectCallback(rect) ==
  /\ pc = "rect"
  /\ IF rect = Null
     THEN /\ pc' = "failed"
          /\ Commit(Cur("init3DScene.callback"), rect, << >>)
     ELSE /\ pc' = "size"
          /\ Commit(setData(Cur("init3DScene.callback"),
                            [canvasWidth |-> rect.width, canvasHeight |-> rect.height]),
                    rect, << >>)
  /\ UNCHANGED detached

\* the exec callback of initThreeJS; it asks for the canvas node
SizeCallback(rect) ==
  /\ pc = "size"
  /\ IF rect = Null
     THEN /\ pc' = "failed"
          /\ Commit(Cur("initThreeJS.exec"), rect, << >>)
     ELSE /\ pc' = "node"
          /\ Commit(setData(Cur("initThreeJS.exec"),
                            [canvasWidth |-> rect.width, canvasHeight |-> rect.height]),
                    rect, << >>)
  /\ UNCHANGED detached

\* the node callback of initThreeJS: the context is stored, the first paint
nodeCallback(m) ==
  renderInitialScene(setData(Draw(m, "scale", [dpr |-> "dpr"]),
                             [canvasContext |-> Ctx, loading |-> FALSE]))

\* a node query that is asked again after it has failed
NodeCallbackRetried(node) ==
  /\ pc \in { "node", "failed" }
  /\ IF node = Null
     THEN /\ pc' = "failed"
          /\ Commit(Cur("initThreeJS.node"), node, << >>)
     ELSE /\ pc' = "ready"
          /\ Commit(nodeCallback(Cur("initThreeJS.node")), node, << >>)
  /\ UNCHANGED detached

NodeCallback(node) ==
  /\ pc = "node"
  /\ IF node = Null
     THEN /\ pc' = "failed"
          /\ Commit(Cur("initThreeJS.node"), node, << >>)
     ELSE /\ pc' = "ready"
          /\ Commit(nodeCallback(Cur("initThreeJS.node")), node, << >>)
  /\ UNCHANGED detached

Detached ==
  /\ Live
  /\ detached' = TRUE
  /\ Commit(cleanup3D(Cur("detached")), NoArg, << >>)
  /\ UNCHANGED pc

\* the host sets the mapData property; its observer runs
SetMapData(newData) ==
  /\ ~detached
  /\ HandlerOn(onMapDataChange(setData(Cur("mapData"), [mapData |-> newData]), newData),
               newData)

\* the host sets currentFloor or pathData; neither has an observer
SetCurrentFloor(floor) ==
  /\ ~detached
  /\ floor # data.currentFloor
  /\ HandlerOn(setData(Cur("currentFloor"), [currentFloor |-> floor]), [floor |-> floor])

SetPathData(path) ==
  /\ ~detached
  /\ path # data.pathData
  /\ HandlerOn(setData(Cur("pathData"), [pathData |-> path]), [path |-> path])

FloorSelect(floor) ==
  /\ Live
  /\ HandlerOn(onFloorSelect(Cur("onFloorSelect"), floor), [floor |-> floor])

TouchStart(e) ==
  /\ Live
  /\ HandlerOn(onTouchStart(Cur("onTouchStart"), e), e)

MaxAngle == 9

AngleInBounds(a) == FLeq(FromInt(-MaxAngle), a) /\ FLeq(a, FromInt(MaxAngle))

\* moves keeps, when tracked, the last two updates of an unbroken run of
\* moves: the deltas and the camera each started from
Moved(m, e) ==
  IF TouchMoves(data, e)
  THEN (IF moves = << >> THEN << >> ELSE << moves[Len(moves)] >>)
         \o << [deltaX |-> m.d.lastTouchX - data.lastTouchX,
                 deltaY |-> m.d.lastTouchY - data.lastTouchY,
                 angle |-> data.cameraAngle,
                 height |-> data.cameraHeight] >>
  ELSE << >>

TouchMoved(m, e, track) ==
  /\ AngleInBounds(m.d.cameraAngle)
  /\ Commit(m, e, IF track THEN Moved(m, e) ELSE << >>)

TouchMove(e, track) ==
  /\ Live
  /\ TouchMoved(onTouchMove(Cur("onTouchMove"), e), e, track)
  /\ UNCHANGED << pc, detached >>

TouchEnd ==
  /\ Live
  /\ Handler(onTouchEnd(Cur("onTouchEnd")))

MouseWheel(delta) ==
  /\ Live
  /\ HandlerOn(onMouseWheel(Cur("onMouseWheel"), delta), [deltaY |-> delta])

ResetView == Live /\ Handler(resetView(Cur("resetView")))

TopView == Live /\ Handler(topView(Cur("topView")))

SideView == Live /\ Handler(sideView(Cur("sideView")))

PerspectiveView == Live /\ Handler(perspectiveView(Cur("perspectiveView")))

ToggleConnections(value) ==
  /\ Live
  /\ value # data.showConnections
  /\ HandlerOn(onToggleConnections(Cur("onToggleConnections"), value), [value |-> value])

ToggleLabels(value) ==
  /\ Live
  /\ value # data.showLabels
  /\ HandlerOn(onToggleLabels(Cur("onToggleLabels"), value), [value |-> value])

TogglePath(value) ==
  /\ Live
  /\ value # data.showPath
  /\ HandlerOn(onTogglePath(Cur("onTogglePath"), value), [value |-> value])

MaxStarts == 2
MaxTicks == 2

StartAutoRotation ==
  /\ Live
  /\ timers.seq < MaxStarts
  /\ Handler(startAutoRotation(Cur("startAutoRotation")))

StopAutoRotation ==
  /\ Live
  /\ Handler(stopAutoRotation(Cur("stopAutoRotation")))

\* a live interval fires
AutoRotateTick(id) ==
  /\ id \in timers.intervals
  /\ timers.ticks < MaxTicks
  /\ LET m == autoRotationTick(Cur("autoRotationTick"))
     IN  HandlerOn([m EXCEPT !.t.ticks = @ + 1], [timer |-> id])

\* the 10 s timeout set by startAutoRotation fires
AutoRotateTimeout(id) ==
  /\ id \in timers.timeouts
  /\ LET m == stopAutoRotation(Cur("autoRotationTimeout"))
     IN  HandlerOn([m EXCEPT !.t.timeouts = @ \ {id}], [timer |-> id])

(***************************************************************************)
(* Inputs and specifications.                                              *)
(***************************************************************************)
\* a contact point px, py pixels into a canvas that sits 50 px down the page
TouchAt(px, py) == [x |-> px, y |-> py, clientX |-> px, clientY |-> py + 50]

EventsAt(points) ==
  { [touches |-> << TouchAt(q[1], q[2]) >>] : q \in points }
    \cup { [touches |-> << TouchAt(0, 0), TouchAt(100, 100) >>] }

Touches == EventsAt({ << 0, 0 >>, << 100, 0 >> })

CameraTouches == EventsAt({ << 0, 0 >>, << 34, 0 >>, << 0, 400 >> })

Wheels == { -3000, 3000 }

CameraWheels == { -4000, -1000, 1000, 4000 }

Nodes == { Null, [node |-> "canvas"] }

\* a step outside the event budget, and a step that uses it up
Free(A) == A /\ UNCHANGED << events, shade >> /\ UNCHANGED services

MaxEvents == 3

Event(A) ==
  events < MaxEvents /\ events' = events + 1 /\ A /\ UNCHANGED shade /\ UNCHANGED services

\* The whole component from its construction: the acquisition and teardown
\* interleaved with every sequence of at most MaxEvents events.
Next ==
  \/ Free(Attached)
  \/ \E rect \in { Null, Rect } : Free(RectCallback(rect))
  \/ \E rect \in { Null, Rect } : Free(SizeCallback(rect))
  \/ \E node \in Nodes : Free(NodeCallback(node))
  \/ Free(Detached)
  \/ \E newData \in { MapOne, MapNoFloors } : Event(SetMapData(newData))
  \/ \E floor \in 1..MaxFloor : Event(SetCurrentFloor(floor))
  \/ \E path \in Paths : Event(SetPathData(path))
  \/ \E floor \in 1..MaxFloor : Event(FloorSelect(floor))
  \/ \E value \in BOOLEAN : Event(ToggleConnections(value))
  \/ \E value \in BOOLEAN : Event(ToggleLabels(value))
  \/ \E value \in BOOLEAN : Event(TogglePath(value))
  \/ \E e \in Touches : Event(TouchStart(e))
  \/ \E e \in Touches : Event(TouchMove(e, FALSE))
  \/ Event(TouchEnd)
  \/ \E delta \in Wheels : Event(MouseWheel(delta))
  \/ Event(ResetView)
  \/ Event(TopView)
  \/ Event(SideView)
  \/ Event(PerspectiveView)
  \/ Event(StartAutoRotation)
  \/ Event(StopAutoRotation)
  \/ \E id \in 1..MaxStarts : Event(AutoRotateTick(id))
  \/ \E id \in 1..MaxStarts : Event(AutoRotateTimeout(id))

Spec == Init /\ [][Next]_vars

\* The component as the acquisition leaves it when the host has set no map:
\* the context stored, the demo scene built and painted.
Measured ==
  [d |-> [InitData EXCEPT !.canvasWidth = Rect.width, !.canvasHeight = Rect.height],
   s |-> InitSurface, t |-> InitTimers, tr |-> << "initThreeJS.node" >>, ev |-> << >>]

ReadyAs(m) ==
  /\ data = m.d
  /\ surface = m.s
  /\ timers = m.t
  /\ trace = m.tr
  /\ emitted = m.ev
  /\ input = [node |-> "canvas"]
  /\ moves = << >>
  /\ pc = "ready"
  /\ detached = FALSE
  /\ events = 0
  /\ shade = NoShade
  /\ ServicesStart

InitReady == ReadyAs(nodeCallback(Measured))

\* the camera under any sequence of gestures, wheel events and preset views
NextCamera ==
  \/ \E e \in CameraTouches : Free(TouchStart(e))
  \/ \E e \in CameraTouches : Free(TouchMove(e, TRUE))
  \/ Free(TouchEnd)
  \/ \E delta \in CameraWheels : Free(MouseWheel(delta))
  \/ Free(ResetView)
  \/ Free(TopView)
  \/ Free(SideView)
  \/ Free(PerspectiveView)

SpecCamera == InitReady /\ [][NextCamera]_vars

\* auto-rotation against manual rotation and teardown
NextRotate ==
  \/ Free(Detached)
  \/ \E e \in Touches : Free(TouchStart(e))
  \/ \E e \in Touches : Free(TouchMove(e, FALSE))
  \/ Free(TouchEnd)
  \/ Free(StartAutoRotation)
  \/ Free(StopAutoRotation)
  \/ \E id \in 1..MaxStarts : Free(AutoRotateTick(id))
  \/ \E id \in 1..MaxStarts : Free(AutoRotateTimeout(id))

SpecRotate == InitReady /\ [][NextRotate]_vars

\* the same, with the host's timer service delivering every timeout it holds
TimeoutDue == \E id \in 1..MaxStarts : Free(AutoRotateTimeout(id))

SpecRotateLive == InitReady /\ [][NextRotate]_vars /\ WF_vars(TimeoutDue)

\* the scene under any sequence of changes of its inputs
NextScene ==
  \/ Free(Detached)
  \/ \E newData \in Maps \cup { Null } : Free(SetMapData(newData))
  \/ \E floor \in 1..MaxFloor : Free(SetCurrentFloor(floor))
  \/ \E path \in Paths : Free(SetPathData(path))
  \/ \E floor \in 1..MaxFloor : Free(FloorSelect(floor))
  \/ \E value \in BOOLEAN : Free(ToggleConnections(value))
  \/ \E value \in BOOLEAN : Free(ToggleLabels(value))
  \/ \E value \in BOOLEAN : Free(TogglePath(value))

SpecScene == InitReady /\ [][NextScene]_vars

\* the shading helpers on every string of at most MaxColorLen characters
\* and on a value that is no string
ColorChars == { "#", "0", "f", "g" }

MaxColorLen == 7

Colors ==
  { Null } \cup
    { [str |-> Array(s)] : s \in UNION { [1..n -> ColorChars] : n \in 0..MaxColorLen } }

InitShade ==
  /\ shade \in { [fn |-> "none", color |-> c, amount |-> Lit03] : c \in Colors }
  /\ data = InitData
  /\ surface = InitSurface
  /\ timers = InitTimers
  /\ pc = "created"
  /\ detached = FALSE
  /\ trace = << >>
  /\ input = NoArg
  /\ emitted = << >>
  /\ moves = << >>
  /\ events = 0
  /\ ServicesStart

Shaded(fn, result) ==
  /\ shade.fn = "none"
  /\ shade' = [fn |-> fn, color |-> shade.color, amount |-> shade.amount,
               result |-> result]
  /\ UNCHANGED << data, surface, timers, pc, detached, trace, input, emitted,
                  moves, events >>
  /\ UNCHANGED services

DarkenColor == Shaded("darkenColor", darkenColor(shade.color, shade.amount))

LightenColor == Shaded("lightenColor", lightenColor(shade.color, shade.amount))

NextShade == DarkenColor \/ LightenColor

SpecShade == InitShade /\ [][NextShade]_vars

(***************************************************************************)
(* Properties.                                                             *)
(***************************************************************************)
\* the last handler called the routine
Ran(routine) == \E i \in 1..Len(trace) : trace[i] = routine

Two == FromInt(2)

ThirtyFive == FromInt(35)

\* C1: after any sequence of drags, wheel events and preset views, with
\* deltas of either sign and of any size, cameraHeight lies within [2, 35].
C1_HeightInRange ==
  FLeq(Two, data.cameraHeight) /\ FLeq(data.cameraHeight, ThirtyFive)

\* a drag downwards by more than the whole range has been clamped
C1_ClampedBelow ==
  /\ trace[1] = "onTouchMove"
  /\ moves # << >>
  /\ moves[Len(moves)].deltaY > 330
  /\ data.cameraHeight = Two

\* C2: while a drag that began with a single-point touch start lasts, that
\* is from the touch start until the touch end (or the teardown), isRotating
\* stays set, an auto-rotate tick that fires changes neither cameraAngle nor
\* the surface, and only the drag's own moves change cameraAngle.
C2_DragSuppressesTicks ==
  [][ /\ (trace'[1] = "onTouchStart" /\ Len(input'.touches) = 1
            => data'.isRotating)
      /\ (data.isRotating /\ ~data'.isRotating
            => trace'[1] \in { "onTouchEnd", "detached" })
      /\ (data.isRotating /\ trace'[1] = "autoRotationTick"
            => data'.cameraAngle = data.cameraAngle /\ surface' = surface)
      /\ (data.isRotating /\ data'.cameraAngle # data.cameraAngle
            => trace'[1] = "onTouchMove") ]_vars

\* a tick has fired in the middle of a drag, with auto-rotation running
C2_TickDuringDrag ==
  /\ trace = << "autoRotationTick" >>
  /\ data.isRotating
  /\ data.isAutoRotating
  /\ timers.ticks > 0

\* C3: until the context has been acquired and stored nothing is drawn on
\* the surface, whatever map changes, floor selections, toggles, gestures,
\* wheel events and ticks arrive before.
C3_NoPaintBeforeReady ==
  pc # "ready" => data.canvasContext = Null /\ surface.ops = << >>

\* a wheel event has asked for a repaint while the canvas node was awaited
C3_RepaintAskedEarly ==
  /\ pc = "node"
  /\ trace = << "onMouseWheel" >>
  /\ data.cameraHeight # FromInt(15)

\* C4: the teardown leaves no interval running, and after it no tick fires,
\* cameraAngle does not change and nothing is drawn, also when auto-rotation
\* was running at the teardown.
C4_NoTickAfterTeardown ==
  [][ /\ (detached' => timers'.intervals = {})
      /\ (detached => /\ trace'[1] # "autoRotationTick"
                      /\ data'.cameraAngle = data.cameraAngle
                      /\ surface' = surface) ]_vars

\* the teardown has cancelled an interval that had ticked and whose 10 s
\* had not run out
C4_TornDownWhileRotating ==
  /\ detached
  /\ trace = << "detached", "clearInterval" >>
  /\ timers.ticks > 0
  /\ timers.timeouts # {}

ZeroFloors(mapData) ==
  mapData # Null /\ (Has(mapData, "floors") => DOMAIN mapData.floors = {})

PlaceholderOnly ==
  << [op |-> "clearRect", arg |-> NoArg, alpha |-> 100],
     [op |-> "fillRect", arg |-> [style |-> "gradient"], alpha |-> 100],
     [op |-> "fillText", arg |-> [text |-> "No 3D content to display"],
      alpha |-> 100] >>

\* C5: prepareRenderObjects on a map with no floor entries leaves an empty
\* render list, and renderScene with an empty render list draws the
\* background and the placeholder label and nothing else: no save,
\* translate, scale, rotate or shear.
C5_EmptyScene ==
  /\ (Ran("prepareRenderObjects") /\ ZeroFloors(data.mapData)
        => data.renderObjects = << >>)
  /\ (Ran("renderScene") /\ data.renderObjects = << >>
        => surface.ops = PlaceholderOnly)

\* a map with an empty floors object has been built and painted while a
\* path was set
C5_EmptyMapPainted ==
  /\ data.mapData = MapNoFloors
  /\ data.pathData = Path3
  /\ Ran("prepareRenderObjects")
  /\ Ran("renderScene")
  /\ surface.ops = PlaceholderOnly

Camera == << data.cameraAngle, data.cameraHeight, data.cameraDistance >>

Triple(angle, height, distance) == << FromInt(angle), FromInt(height), distance >>

\* C6: whatever the camera was before, resetView leaves (3, 15, 20), topView
\* (0, 25, 15), sideView (8, 12, 25) and perspectiveView (5, 18, 22), so a
\* preset applied twice leaves what it leaves applied once.
C6_PresetTriples ==
  /\ (trace[1] = "resetView" => Camera = Triple(3, 15, 20))
  /\ (trace[1] = "topView" => Camera = Triple(0, 25, 15))
  /\ (trace[1] = "sideView" => Camera = Triple(8, 12, 25))
  /\ (trace[1] = "perspectiveView" => Camera = Triple(5, 18, 22))

\* sideView has been applied to a camera that a preset and a drag had moved
C6_SideViewApplied ==
  /\ trace[1] = "sideView"
  /\ Camera = Triple(8, 12, 25)
  /\ data.lastTouchX = 34

\* the last two steps were moves of one drag, by (dx, 0) and by (-dx, 0)
Reversed ==
  /\ Len(moves) = 2
  /\ moves[1].deltaY = 0
  /\ moves[2].deltaY = 0
  /\ moves[2].deltaX = -moves[1].deltaX

\* one unit in the last place of the larger of two doubles
Ulp(a, b) ==
  MagPow2((IF MagLess(a.mag, b.mag) THEN MagBitLen(b.mag) ELSE MagBitLen(a.mag))
            - Mantissa)

Painted == SelectSeq(surface.ops, LAMBDA o : Has(o.arg, "obj"))

PlaceOf(obj) == CHOOSE k \in 1..Len(Painted) : Painted[k].arg.obj = obj

\* objs[i] and objs[j] have the same floorId and the same depth
Tied(objs, depth, i, j) ==
  OrZero(objs[i], "floorId") = OrZero(objs[j], "floorId") /\ depth[i] = depth[j]

KeepsBuildOrder(objs, depth) ==
  \A i, j \in 1..Len(objs) :
    i < j /\ Tied(objs, depth, i, j) => PlaceOf(objs[i]) < PlaceOf(objs[j])

DepthsOf(objs) == Array([i \in 1..Len(objs) |-> DepthOf(objs[i])])

\* C8: renderScene paints every object of the render list once, and two
\* objects with the same floorId and the same depth x + z*0.5 + y*0.1 in the
\* order in which prepareRenderObjects emitted them.
C8_StablePaintOrder ==
  Ran("renderScene") =>
    /\ Len(Painted) = Len(data.renderObjects)
    /\ KeepsBuildOrder(data.renderObjects, DepthsOf(data.renderObjects))

\* a scene with two tied rooms, two tied connections and two tied path
\* points has been painted
C8_TiesPainted ==
  /\ Ran("renderScene")
  /\ data.mapData = MapTwo
  /\ data.pathData = Path3
  /\ Len(data.renderObjects) = 10
  /\ \E i, j \in 1..Len(data.renderObjects) :
       /\ i < j
       /\ data.renderObjects[i].type = "connection"
       /\ Tied(data.renderObjects, DepthsOf(data.renderObjects), i, j)

FloorObjs == SelectSeq(data.renderObjects, LAMBDA o : o.type = "floor")

FloorsOf(mapData) ==
  IF mapData # Null /\ Has(mapData, "floors") THEN DOMAIN mapData.floors ELSE {}

\* C9: prepareRenderObjects emits for every floor entry one floor object,
\* with y = (id - 1) * FloorSpacing, so that y grows strictly with the id.
C9_FloorOffsets ==
  /\ \A i \in 1..Len(FloorObjs) :
       FloorObjs[i].y = (FloorObjs[i].floorId - 1) * FloorSpacing
  /\ \A i, j \in 1..Len(FloorObjs) :
       FloorObjs[i].floorId < FloorObjs[j].floorId => FloorObjs[i].y < FloorObjs[j].y
  /\ (Ran("prepareRenderObjects") =>
        \A k \in FloorsOf(data.mapData) :
          Cardinality({ i \in 1..Len(FloorObjs) : FloorObjs[i].floorId = parseInt(k) }) = 1)

\* the two floors of a map have been built
C9_TwoFloorsBuilt ==
  /\ Ran("prepareRenderObjects")
  /\ data.mapData = MapTwo
  /\ Len(FloorObjs) = 2
  /\ FloorObjs[1].y = 0
  /\ FloorObjs[2].y = FloorSpacing

\* the scene of one floor with the room at (3, 2) and the entrance at
\* (1, 1), floor 1 current, no path, every toggle on, has been built
ScenarioBuilt ==
  /\ Ran("prepareRenderObjects")
  /\ data.mapData = MapOne
  /\ data.currentFloor = 1
  /\ data.pathData = << >>
  /\ data.showConnections /\ data.showLabels /\ data.showPath

IsFloorOne(o) == o.type = "floor" /\ o.floorId = 1 /\ o.y = 0

IsRoomA(o) == o.type = "room" /\ o.x = 3 /\ o.z = 2 /\ o.floorId = 1

NoneOf(objs, types) == \A i \in 1..Len(objs) : objs[i].type \notin types

\* C10 as stated: in that scenario the render list holds exactly 2 objects,
\* the floor (floorId 1, y 0) and the room (x 3, z 2, floorId 1), and no
\* connection or path object.
C10_TwoObjects ==
  ScenarioBuilt =>
    /\ Len(data.renderObjects) = 2
    /\ IsFloorOne(data.renderObjects[1])
    /\ IsRoomA(data.renderObjects[2])
    /\ NoneOf(data.renderObjects, { "connection", "path" })

\* C10 as it holds: in that scenario the render list holds exactly 3
\* objects, the floor (floorId 1, y 0), the room (x 3, z 2, floorId 1) and
\* the entrance (x 1, z 1, floorId 1), and no connection or path object.
C10_ThreeObjects ==
  ScenarioBuilt =>
    /\ Len(data.renderObjects) = 3
    /\ IsFloorOne(data.renderObjects[1])
    /\ IsRoomA(data.renderObjects[2])
    /\ data.renderObjects[3].type = "entrance"
    /\ data.renderObjects[3].x = 1
    /\ data.renderObjects[3].z = 1
    /\ data.renderObjects[3].floorId = 1
    /\ NoneOf(data.renderObjects, { "connection", "path" })

\* the scenario has been built and painted with its entrance
C10_ScenarioReached ==
  /\ ScenarioBuilt
  /\ Ran("renderScene")
  /\ \E i \in 1..Len(data.renderObjects) : data.renderObjects[i].type = "entrance"

\* the draw calls of the path markers on the surface
Markers == SelectSeq(surface.ops, LAMBDA o : o.op = "path")

\* C11: when path markers are painted, the marker with index 0 is painted
\* green, the marker with the last index of the path red and every other
\* marker yellow.
C11_MarkerColors ==
  Ran("renderScene") =>
    \A k \in 1..Len(Markers) :
      Markers[k].arg.color = renderPathPointColor(Markers[k].arg.obj, data.pathData)

\* the three markers of a 3-point path have been painted
C11_MarkersPainted ==
  /\ Ran("renderScene")
  /\ data.pathData = Path3
  /\ Len(Markers) = 3
  /\ \A k \in 1..3 : Markers[k].arg.color = "#ff4d4f"

\* the handlers that run when an input of the scene changes
InputChanges ==
  { "mapData", "currentFloor", "pathData", "onFloorSelect",
    "onToggleConnections", "onToggleLabels", "onTogglePath" }

\* what the scene builder produces from the inputs d
Rebuilt(d) == IF d.mapData = Null THEN << >> ELSE BuildObjects(d)

\* C12: after any change of the map description, the current floor, the
\* path points or a toggle, with the surface ready, the stored render list
\* is what the scene builder produces from the current inputs.
C12_ListIsRebuilt ==
  (data.canvasContext # Null /\ trace[1] \in InputChanges)
    => data.renderObjects = Rebuilt(data)

\* the host has set a 3-point path on a shown one-floor map and the list
\* still holds the three objects built before
C12_PathSetNotBuilt ==
  /\ trace = << "pathData" >>
  /\ data.canvasContext # Null
  /\ data.mapData = MapOne
  /\ data.pathData = Path3
  /\ data.showPath
  /\ Len(data.renderObjects) = 3
  /\ Len(Rebuilt(data)) = 6

\* C13: every floor selection emits exactly one floorchange notification
\* carrying the selected floor id, and no other operation emits one.
C13_FloorChangeOnlyOnSelect ==
  IF trace # << >> /\ trace[1] = "onFloorSelect"
  THEN emitted = << [name |-> "floorchange", floor |-> input.floor] >>
  ELSE emitted = << >>

\* floor 2 has been selected and announced
C13_FloorTwoSelected ==
  /\ trace # << >>
  /\ trace[1] = "onFloorSelect"
  /\ input.floor = 2
  /\ data.currentFloor = 2
  /\ emitted = << [name |-> "floorchange", floor |-> 2] >>

FloorIds(mapData) == { parseInt(k) : k \in FloorsOf(mapData) }

LowestFloor(ids) == CHOOSE i \in ids : \A j \in ids : i <= j

\* the floors the painter drew as the current floor
DrawnAsCurrent ==
  { surface.ops[k].arg.obj.floorId :
      k \in { i \in 1..Len(surface.ops) :
                surface.ops[i].op = "floorBase" /\ surface.ops[i].arg.isCurrentFloor } }

\* C14: when currentFloor is not a floor id of the loaded multi-floor map,
\* the floor used as the current one is the lowest floor id of the map.
C14_LowestFloorUsed ==
  (/\ Ran("renderScene")
   /\ FloorIds(data.mapData) # {}
   /\ data.currentFloor \notin FloorIds(data.mapData))
    => DrawnAsCurrent = { LowestFloor(FloorIds(data.mapData)) }

\* with floor 2 current the host has loaded a map whose only floor is
\* floor 1, and the scene has been painted with no floor drawn as current
C14_MissingFloorSelected ==
  /\ trace[1] = "mapData"
  /\ Ran("renderScene")
  /\ data.mapData = MapOne
  /\ data.currentFloor = 2
  /\ DrawnAsCurrent = {}

\* C15: once a measurement or the node query of the initialization has
\* failed, the initialization is not tried again, the context is never
\* stored and nothing is ever drawn, whatever events follow.
C15_FailedStaysBlank ==
  /\ [](pc = "failed" => data.canvasContext = Null /\ surface.ops = << >>)
  /\ [][pc = "failed" => pc' = "failed"]_vars

\* after a failed initialization a wheel event has changed the camera and
\* asked for a repaint
C15_EventAfterFailure ==
  /\ pc = "failed"
  /\ trace = << "onMouseWheel" >>
  /\ data.cameraHeight # FromInt(15)
  /\ surface.ops = << >>

\* what renderNoDataScene leaves on the surface
NoDataOnly ==
  << [op |-> "clearRect", arg |-> NoArg, alpha |-> 100],
     [op |-> "fillRect", arg |-> [style |-> "gradient"], alpha |-> 100],
     [op |-> "fillText", arg |-> [text |-> "Current is 2D map"], alpha |-> 100],
     [op |-> "fillText",
      arg |-> [text |-> "Please select 3D map to view 3D effect"], alpha |-> 100],
     [op |-> "fillText", arg |-> [text |-> "icon"], alpha |-> 100] >>

\* C16: when the map-change handler has run, with the surface ready, on a
\* map description without floor entries, the render list is empty and the
\* surface shows a placeholder and no object of a map shown before.
C16_NoFloorsShowsPlaceholder ==
  (trace[1] = "mapData" /\ data.canvasContext # Null /\ ZeroFloors(data.mapData))
    => /\ data.renderObjects = << >>
       /\ surface.ops \in { PlaceholderOnly, NoDataOnly }

\* a description flagged 3D but without floors has replaced a shown map,
\* whose objects are still stored and painted
C16_StaleSceneKept ==
  /\ trace[1] = "mapData"
  /\ data.canvasContext # Null
  /\ data.mapData = MapFlagOnly
  /\ data.renderObjects # << >>
  /\ Painted # << >>

\* a valid #RRGGBB colour
ValidColor(color) ==
  /\ Has(color, "str")
  /\ Len(color.str) = 7
  /\ color.str[1] = "#"
  /\ \A i \in 2..7 : IsHex(color.str[i])

\* C17: darkenColor and lightenColor return the colour they are given for
\* every input that is not a valid #RRGGBB colour, and never fail.
C17_MalformedUnchanged ==
  (shade.fn # "none" /\ ~ValidColor(shade.color)) => shade.result = shade.color

\* darkenColor has been given "#g" and has returned rgb(0, 0, 0)
C17_MalformedShaded ==
  /\ shade.fn = "darkenColor"
  /\ shade.color = [str |-> << "#", "g" >>]
  /\ shade.result = [rgb |-> << 0, 0, 0 >>]

Pointer == << data.cameraAngle, data.cameraHeight, data.cameraDistance,
              data.lastTouchX, data.lastTouchY >>

\* what every step does to the interaction state, apart from what ends it
Interaction(enders) ==
  /\ (trace'[1] = "onTouchStart" /\ Len(input'.touches) = 1 => data'.isRotating)
  /\ (~data.isRotating /\ data'.isRotating
        => trace'[1] = "onTouchStart" /\ Len(input'.touches) = 1)
  /\ (trace'[1] = "onTouchEnd" => ~data'.isRotating)
  /\ (data.isRotating /\ ~data'.isRotating => trace'[1] \in enders)
  /\ (trace'[1] = "onTouchMove" /\ ~data.isRotating => Pointer' = Pointer)

\* C19 as stated: the interaction state goes from Idle to Rotating on a
\* touch start with exactly one contact and from Rotating to Idle on touch
\* end, and on nothing else; a touch move while Idle changes neither the
\* camera nor the stored pointer coordinates.
C19_TwoTransitions == [][Interaction({ "onTouchEnd" })]_vars

\* C19 as it holds: the interaction state goes from Idle to Rotating on a
\* touch start with exactly one contact and from Rotating to Idle on touch
\* end and on the teardown, and on nothing else; a touch move while Idle
\* changes neither the camera nor the stored pointer coordinates.
C19_TransitionsWithTeardown == [][Interaction({ "onTouchEnd", "detached" })]_vars

\* the component has been torn down in the middle of a drag: the one event
\* before the teardown was the touch start that stored the pointer
C19_TornDownInDrag ==
  /\ detached
  /\ trace[1] = "detached"
  /\ events = 1
  /\ data.lastTouchX = 100
  /\ ~data.isRotating

\* C20: every started auto-rotation ends: isAutoRotating becomes false and
\* no interval is left running, by stopAutoRotation or by the timeout,
\* without any user action.
C20_RotationEnds ==
  data.isAutoRotating ~> (~data.isAutoRotating /\ timers.intervals = {})

\* the timeout has ended a rotation that had ticked
C20_EndedByTimeout ==
  /\ trace = << "autoRotationTimeout", "clearInterval" >>
  /\ timers.ticks > 0
  /\ ~data.isAutoRotating
  /\ data.autoRotationTimer = 0
  /\ timers.intervals = {}

\* C21: an auto-rotation ends only by stopAutoRotation, by the teardown or
\* by the timeout that was set with it: a timeout left over from an earlier
\* start never ends a later auto-rotation.
C21_OwnTimeoutOnly ==
  [][ data.isAutoRotating /\ ~data'.isAutoRotating
        => \/ trace'[1] \in { "stopAutoRotation", "detached" }
           \/ /\ trace'[1] = "autoRotationTimeout"
              /\ input'.timer = data.autoRotationTimer ]_vars

\* the timeout set by the first start has fired during the second
\* auto-rotation and has cleared its interval, while the second start's own
\* timeout is still pending
C21_EndedByStaleTimeout ==
  /\ trace = << "autoRotationTimeout", "clearInterval" >>
  /\ input = [timer |-> 1]
  /\ timers.seq = 2
  /\ timers.timeouts = { 2 }
  /\ timers.intervals = {}
  /\ ~data.isAutoRotating

\* C22: at every point of any sequence of starts, stops, timeouts and the
\* teardown at most one interval is scheduled, it is the one held in
\* autoRotationTimer, and isAutoRotating is true exactly when one is
\* scheduled.
C22_OneTickScheduled ==
  /\ Cardinality(timers.intervals) <= 1
  /\ timers.intervals =
       (IF data.autoRotationTimer = 0 THEN {} ELSE { data.autoRotationTimer })
  /\ data.isAutoRotating <=> timers.intervals # {}

\* auto-rotation has been started again while it was running: the first
\* interval has been cleared and the second is the only one scheduled
C22_Restarted ==
  /\ trace = << "startAutoRotation", "clearInterval" >>
  /\ timers.seq = 2
  /\ timers.intervals = { 2 }
  /\ data.autoRotationTimer = 2
  /\ data.isAutoRotating

\* C23: when the component is detached before the surface acquisition has
\* completed, the callbacks that arrive afterwards neither store a context
\* nor paint: after the teardown canvasContext stays null and nothing is
\* drawn.
C23_NoLateAcquisition ==
  /\ [](detached => data.canvasContext = Null)
  /\ [][detached => surface' = surface]_vars

\* the node callback has arrived after the teardown, has stored the context
\* and has painted the demo scene
C23_PaintedAfterTeardown ==
  /\ detached
  /\ pc = "ready"
  /\ trace[1] = "initThreeJS.node"
  /\ data.canvasContext = Ctx
  /\ data.mapData = DemoData
  /\ Ran("renderNoDataScene")
  /\ surface.ops # << >>

\* the objects of a list that are floors, and those that are not
FloorsIn(objs) == SelectSeq(objs, LAMBDA o : o.type = "floor")

OthersIn(objs) == SelectSeq(objs, LAMBDA o : o.type # "floor")

PaintedObjs == Array([k \in 1..Len(Painted) |-> Painted[k].arg.obj])

\* C24: in every paint pass all floor objects are painted first and all
\* other objects after them, each group in the order of the sorted list: no
\* floor slab is painted after a room, entrance, connection or path marker.
C24_FloorsFirst ==
  Ran("renderScene") =>
    /\ \A i, j \in 1..Len(Painted) :
         Painted[i].op = "floorBase" /\ Painted[j].op # "floorBase" => i < j
    /\ PaintedObjs = FloorsIn(sortedObjects(data.renderObjects))
                       \o OthersIn(sortedObjects(data.renderObjects))

\* two floors have been painted: the slab of floor 2, which the sorted list
\* holds behind the rooms of floor 1, has been painted before them
C24_UpperSlabBeforeRooms ==
  /\ Ran("renderScene")
  /\ data.mapData = MapTwo
  /\ \E i, j \in 1..Len(Painted) :
       /\ i < j
       /\ Painted[i].op = "floorBase"
       /\ Painted[i].arg.obj.floorId = 2
       /\ Painted[j].op = "room"
       /\ Painted[j].arg.obj.floorId = 1

\* objs[i] and objs[j] are no floors, have the same floorId, and objs[i] has
\* the smaller depth
Shallower(objs, depth, i, j) ==
  /\ objs[i].type # "floor"
  /\ objs[j].type # "floor"
  /\ OrZero(objs[i], "floorId") = OrZero(objs[j], "floorId")
  /\ FLess(depth[i], depth[j])

LargerDepthLast(objs, depth) ==
  \A i, j \in 1..Len(objs) :
    Shallower(objs, depth, i, j) => PlaceOf(objs[i]) < PlaceOf(objs[j])

\* C25: of two objects that are no floors and have the same floorId, the
\* one with the larger depth x + z*0.5 + y*0.1 is painted after the one with
\* the smaller depth.
C25_LargerDepthLast ==
  Ran("renderScene") =>
    LargerDepthLast(data.renderObjects, DepthsOf(data.renderObjects))

\* the one-floor map has been painted: the room at (3, 2), of depth 2, has
\* been painted before the entrance at (1, 1), of depth 0
C25_RoomBeforeEntrance ==
  /\ Ran("renderScene")
  /\ data.mapData = MapOne
  /\ Len(data.renderObjects) >= 3
  /\ data.renderObjects[2].type = "room"
  /\ data.renderObjects[3].type = "entrance"
  /\ DepthOf(data.renderObjects[2]) = FromInt(2)
  /\ DepthOf(data.renderObjects[3]) = FromInt(0)
  /\ PlaceOf(data.renderObjects[2]) < PlaceOf(data.renderObjects[3])

\* how many save() calls are open after the draw calls ops[i..], when depth
\* were open before them; -1 when a restore() finds none open
RECURSIVE Nesting(_, _, _)
Nesting(ops, i, depth) ==
  IF i > Len(ops) THEN depth
  ELSE IF ops[i].op = "save" THEN Nesting(ops, i + 1, depth + 1)
  ELSE IF ops[i].op # "restore" THEN Nesting(ops, i + 1, depth)
  ELSE IF depth = 0 THEN -1
  ELSE Nesting(ops, i + 1, depth - 1)

Saves == SelectSeq(surface.ops, LAMBDA o : o.op = "save")

\* C26: every paint pass leaves the context's save() stack as it found it:
\* every save is followed by its restore, no restore comes without a save
\* before it, and after the pass, the pass over an empty list included,
\* nothing is left on the stack.
C26_StackRestored ==
  /\ surface.stack = << >>
  /\ Nesting(surface.ops, 1, 0) = 0

\* a scene of ten objects has been painted under the camera transform: one
\* save for the transform, two for each slab and two for each other object
C26_FullScenePainted ==
  /\ Ran("renderScene")
  /\ Len(data.renderObjects) = 10
  /\ Len(Saves) = 21
  /\ surface.stack = << >>

\* C27: every object the scene builder emits, of every type, carries an
\* integer floorId >= 1 and a vertical offset y, so that the painter's floor
\* offset (floorId - 1) * 100 is defined for every object it positions.
C27_EveryObjectHasFloor ==
  \A i \in 1..Len(data.renderObjects) :
    /\ Has(data.renderObjects[i], "floorId")
    /\ data.renderObjects[i].floorId \in Nat \ { 0 }
    /\ Has(data.renderObjects[i], "y")

\* the places the painter moved to for the connections it drew
ConnectionPlaces ==
  { surface.ops[k - 2].arg :
      k \in { i \in 3..Len(surface.ops) : surface.ops[i].op = "connection" } }

\* the two connections of the two-floor map have been built without floorId
\* and without y, and the painter has positioned them with an undefined
\* floor offset
C27_ConnectionWithoutFloor ==
  /\ Ran("prepareRenderObjects")
  /\ Ran("renderScene")
  /\ data.mapData = MapTwo
  /\ \E i \in 1..Len(data.renderObjects) :
       /\ data.renderObjects[i].type = "connection"
       /\ ~Has(data.renderObjects[i], "floorId")
       /\ ~Has(data.renderObjects[i], "y")
  /\ ConnectionPlaces # {}
  /\ \A place \in ConnectionPlaces : place.floorOffset = [nan |-> TRUE]

EntranceObjs == SelectSeq(data.renderObjects, LAMBDA o : o.type = "entrance")

\* C28: when the map has an entrance the scene builder emits one entrance
\* object for every floor entry, with that floor's floorId and the
\* entrance's coordinates, and no other; without an entrance it emits none.
C28_EntrancePerFloor ==
  (Ran("prepareRenderObjects") /\ data.mapData # Null) =>
    IF Has(data.mapData, "entrance")
    THEN /\ Len(EntranceObjs) = Cardinality(FloorsOf(data.mapData))
         /\ \A k \in FloorsOf(data.mapData) :
              \E i \in 1..Len(EntranceObjs) : EntranceObjs[i].floorId = parseInt(k)
         /\ \A i \in 1..Len(EntranceObjs) :
              /\ EntranceObjs[i].x = data.mapData.entrance.x
              /\ EntranceObjs[i].z = data.mapData.entrance.y
    ELSE EntranceObjs = << >>

\* a map of two floors with an entrance at (4, 3) has been built: an
\* entrance object for floor 1 and one for floor 2
C28_TwoEntrancesBuilt ==
  /\ Ran("prepareRenderObjects")
  /\ data.mapData = MapBoth
  /\ Len(EntranceObjs) = 2
  /\ EntranceObjs[1].floorId = 1
  /\ EntranceObjs[2].floorId = 2
  /\ EntranceObjs[2].x = 4
  /\ EntranceObjs[2].z = 3

PathMarkers == SelectSeq(data.renderObjects, LAMBDA o : o.type = "path")

\* one marker for every path point, in order, with the point's index
MarkerPerPoint ==
  /\ Len(PathMarkers) = Len(data.pathData)
  /\ \A i \in 1..Len(PathMarkers) :
       /\ PathMarkers[i].index = i - 1
       /\ PathMarkers[i].data = data.pathData[i]

\* C29 as stated: when showPath is on and the path is not empty the scene
\* builder emits one path marker for every path point, carrying the point's
\* index in the path; when showPath is off or the path is empty it emits
\* none.
C29_MarkerPerPoint ==
  Ran("prepareRenderObjects") =>
    IF data.showPath /\ Len(data.pathData) > 0
    THEN MarkerPerPoint
    ELSE PathMarkers = << >>

\* C29 as it holds: when showPath is on, the path is not empty and the map
\* has at least one floor entry, the scene builder emits one path marker
\* for every path point, carrying the point's index in the path; when
\* showPath is off, the path is empty or the map has no floor entry it
\* emits none.
C29_MarkerPerPointOfFloorMap ==
  Ran("prepareRenderObjects") =>
    IF data.showPath /\ Len(data.pathData) > 0 /\ FloorsOf(data.mapData) # {}
    THEN MarkerPerPoint
    ELSE PathMarkers = << >>

\* the markers of a 3-point path have been built on a one-floor map, with
\* the indices 0, 1 and 2
C29_ThreeMarkersBuilt ==
  /\ Ran("prepareRenderObjects")
  /\ data.mapData = MapOne
  /\ data.showPath
  /\ data.pathData = Path3
  /\ Len(PathMarkers) = 3
  /\ PathMarkers[3].index = 2

\* the height focusOnFloor aims at for a floor
FocusTarget(floorId) == (floorId - 1) * 4 + 10

\* the step has called the routine
RanNext(routine) == \E i \in 1..Len(trace') : trace'[i] = routine

\* the step has moved cameraHeight towards the target of the floor, or has
\* left it on the target
Refocused(floorId) ==
  IF data.cameraHeight = FromInt(FocusTarget(floorId))
  THEN data'.cameraHeight = data.cameraHeight
  ELSE MagLess(FSub(data'.cameraHeight, FromInt(FocusTarget(floorId))).mag,
               FSub(data.cameraHeight, FromInt(FocusTarget(floorId))).mag)

\* C30: a floor selection, with the surface ready and a map set, sets
\* currentFloor to the selected id, moves the camera height towards the
\* target of that floor, and rebuilds and repaints the scene.
C30_SelectRefocuses ==
  [][ (trace'[1] = "onFloorSelect" /\ data.canvasContext # Null
         /\ data.mapData # Null)
        => /\ data'.currentFloor = input'.floor
           /\ RanNext("prepareRenderObjects")
           /\ RanNext("renderScene")
           /\ Refocused(input'.floor) ]_vars

\* floor 2 of the two-floor map has been selected: the scene has been
\* rebuilt and painted with floor 2 as the current one, and the camera
\* height is the 15 it was before
C30_SelectedWithoutRefocus ==
  /\ trace[1] = "onFloorSelect"
  /\ input = [floor |-> 2]
  /\ data.mapData = MapTwo
  /\ data.currentFloor = 2
  /\ Ran("prepareRenderObjects")
  /\ Ran("renderScene")
  /\ DrawnAsCurrent = { 2 }
  /\ data.cameraHeight = FromInt(15)
  /\ data.cameraHeight # FromInt(FocusTarget(2))

\* the draw calls of the floor slabs on the surface
Slabs == SelectSeq(surface.ops, LAMBDA o : o.op = "floorBase")

\* C31: in every paint pass the slab of the current floor is drawn with the
\* context's alpha at 100% and the slab of every other floor with the
\* context's alpha at 40%.
C31_OtherFloorsDimmed ==
  Ran("renderScene") =>
    \A k \in 1..Len(Slabs) :
      Slabs[k].alpha = (IF Slabs[k].arg.isCurrentFloor THEN 100 ELSE 40)

\* two floors have been painted with floor 1 current: the slab of floor 2
\* has been drawn with the alpha at 100%
C31_OtherFloorOpaque ==
  /\ Ran("renderScene")
  /\ data.currentFloor = 1
  /\ Len(Slabs) = 2
  /\ Slabs[2].arg.obj.floorId = 2
  /\ ~Slabs[2].arg.isCurrentFloor
  /\ Slabs[2].alpha = 100
  /\ surface.alpha = 100

\* where on the surface the slabs and the objects with a floorId were drawn
SlabCalls == { k \in 3..Len(surface.ops) : surface.ops[k].op = "floorBase" }

ObjectCalls ==
  { k \in 3..Len(surface.ops) : surface.ops[k].op \in { "room", "entrance", "path" } }

\* C32: one floor spacing is used throughout: the offset the painter moves
\* by before it draws the slab of floor N, and before it draws an object of
\* floor N, is the y = (N - 1) * FloorSpacing stored in floor N's floor
\* object.
C32_OneFloorSpacing ==
  Ran("renderScene") =>
    /\ \A k \in SlabCalls :
         surface.ops[k - 2].arg.floorY = surface.ops[k].arg.obj.y
    /\ \A k \in ObjectCalls :
         surface.ops[k - 2].arg.floorOffset =
           [v |-> floorYOf(surface.ops[k].arg.obj.floorId)]

\* two floors have been painted: the floor object of floor 2 holds y = 60
\* and the painter has moved by 100 for its slab and for its room
C32_TwoSpacings ==
  /\ Ran("renderScene")
  /\ data.mapData = MapTwo
  /\ \E k \in SlabCalls :
       /\ surface.ops[k].arg.obj.floorId = 2
       /\ surface.ops[k].arg.obj.y = 60
       /\ surface.ops[k - 2].arg.floorY = 100
  /\ \E k \in ObjectCalls :
       /\ surface.ops[k].arg.obj.floorId = 2
       /\ surface.ops[k - 2].arg.floorOffset = [v |-> 100]

\* the descriptor f is the one of the floor entry with the key k
DescribesFloor(f, mapData, k) ==
  /\ f.id = parseInt(k)
  /\ f.name = mapData.floors[k].name
  /\ f.roomCount = (IF Has(mapData.floors[k], "rooms")
                    THEN Len(mapData.floors[k].rooms) ELSE 0)

\* C33: after every change of the map description the floor descriptor
\* list holds one entry {id, name, roomCount} for every floor entry of the
\* current description, in ascending order of id, and nothing else: it is
\* empty when the description has no floor entries, and no descriptor of a
\* map set before remains.
C33_DescriptorsProjected ==
  trace[1] = "mapData" =>
    /\ Len(data.floors) = Cardinality(FloorsOf(data.mapData))
    /\ \A i \in 1..Len(data.floors) :
         \E k \in FloorsOf(data.mapData) :
           DescribesFloor(data.floors[i], data.mapData, k)
    /\ \A i, j \in 1..Len(data.floors) :
         i < j => data.floors[i].id < data.floors[j].id

\* the host has taken the map away after a two-floor map: the descriptors
\* of the two floors are still listed
C33_StaleDescriptors ==
  /\ trace = << "mapData" >>
  /\ input = Null
  /\ data.mapData = Null
  /\ Len(data.floors) = 2
  /\ data.floors[2].id = 2

\* the handlers that change the camera
CameraChanges ==
  { "onTouchMove", "onMouseWheel", "resetView", "topView", "sideView",
    "perspectiveView", "autoRotationTick" }

\* the data with another camera
WithCamera(d, camera) ==
  [d EXCEPT !.cameraAngle = camera[1], !.cameraHeight = camera[2],
            !.cameraDistance = camera[3]]

OtherCameras == { Triple(0, 25, 15), Triple(8, 12, 25) }

\* how often the step has called renderScene
Repaints == Cardinality({ i \in 1..Len(trace') : trace'[i] = "renderScene" })

\* the step's handler has changed the camera: a move needs a drag under
\* way and one contact, a tick needs no drag under way
CameraChanged ==
  CASE trace'[1] = "onTouchMove" -> TouchMoves(data, input')
    [] trace'[1] = "autoRotationTick" -> ~data.isRotating
    [] OTHER -> TRUE

\* C34: the scene builder does not read the camera: from the same map,
\* floor, path and toggles it builds the same list under any camera.  And a
\* camera change does not touch the scene: a drag move, a wheel event, a
\* preset and an auto-rotate tick leave the stored render list as it is and
\* repaint once (when the surface is ready and the handler acts).
C34_CameraApartFromScene ==
  /\ [](\A camera \in OtherCameras : Rebuilt(WithCamera(data, camera)) = Rebuilt(data))
  /\ [][ trace'[1] \in CameraChanges
           => /\ data'.renderObjects = data.renderObjects
              /\ Repaints = (IF CameraChanged /\ data.canvasContext # Null
                             THEN 1 ELSE 0) ]_vars

\* a wheel event has changed the camera height over a built scene and has
\* repainted it
C34_WheelOverScene ==
  /\ trace # << >>
  /\ trace[1] = "onMouseWheel"
  /\ Ran("renderScene")
  /\ data.cameraHeight # FromInt(15)
  /\ data.mapData = MapOne
  /\ Len(data.renderObjects) = 3
  /\ Len(Painted) = 3

(***************************************************************************)
(* The local voice service (utils/localVoiceService.js).  One service is   *)
(* shared by the pages; a promise of playVoiceUrl is written as its owner: *)
(* "batch" for the one playBatchNavigation waits on, "other" for the rest. *)
(*   currentAudio  Null, or the audio playing: whose request it serves and *)
(*                 whether the batch has added its own onEnded listener    *)
(*   audioQueue    the requests waiting for the audio to finish            *)
(*   dequeued      the requests taken from the queue whose 100 ms timer    *)
(*                 has not fired                                           *)
(*   others        how many requests other callers have made               *)
(*   batch         playBatchNavigation's closure: where it stands, its     *)
(*                 index and, for each instruction, whether the manifest   *)
(*                 has its template                                        *)
(***************************************************************************)

\* instructions in a batch
MaxInstructions == 2

\* playback requests of other callers
MaxOthers == 2

\* the batches asked for: for each instruction, whether its template is in
\* the navigation manifest
TemplateKeys ==
  UNION { [1..n -> { "found", "missing" }] : n \in 0..MaxInstructions }

\* stopCurrentAudio: the audio is stopped and destroyed; no promise is
\* resolved and the queue is left as it is
stopCurrentAudio(v) == [v EXCEPT !.currentAudio = Null, !.isPlaying = FALSE]

\* playVoiceUrl: an urgent request stops the audio playing; any other
\* request waits in the queue while one plays; otherwise a new audio plays
playVoiceUrl(v, owner, priority) ==
  LET stopped == IF priority = "urgent" /\ v.currentAudio # Null
                 THEN stopCurrentAudio(v) ELSE v
  IN IF stopped.isPlaying /\ priority # "urgent"
     THEN [stopped EXCEPT !.audioQueue = Append(@, owner)]
     ELSE [stopped EXCEPT !.isPlaying = TRUE,
                          !.currentAudio = [owner |-> owner, heard |-> FALSE]]

\* onPlayComplete: the audio is destroyed and the head of the queue gets
\* its 100 ms timer
onPlayComplete(v) ==
  LET done == [v EXCEPT !.isPlaying = FALSE, !.currentAudio = Null]
  IN IF v.audioQueue # << >>
     THEN [done EXCEPT !.audioQueue = Tail(@),
                       !.dequeued = Append(@, Head(v.audioQueue))]
     ELSE done

\* the batch moves on: index++ and the 500 ms pause before playNext
batchAdvance(v) ==
  [v EXCEPT !.batch.index = @ + 1, !.batch.phase = "paused"]

\* the callback playNext gives to then(): with an audio playing it adds an
\* onEnded listener to that audio, without one it moves on
batchThen(v) ==
  IF v.currentAudio # Null
  THEN [v EXCEPT !.currentAudio.heard = TRUE, !.batch.phase = "listening"]
  ELSE batchAdvance(v)

\* a promise of playVoiceUrl is resolved
resolve(v, owner) == IF owner = "batch" THEN batchThen(v) ELSE v

\* playNavigationTemplate for the batch: false at once for a template the
\* manifest lacks, else the promise of playVoiceUrl
playNavigationTemplate(v, key) ==
  IF key = "missing" THEN resolve(v, "batch")
  ELSE playVoiceUrl(v, "batch", "normal")

\* playNext: past the last instruction it calls the completion callback,
\* else it plays the instruction and waits for its promise
playNext(v) ==
  IF v.batch.index >= Len(v.batch.keys)
  THEN [v EXCEPT !.batch.phase = "done"]
  ELSE playNavigationTemplate([v EXCEPT !.batch.phase = "awaiting"],
                              v.batch.keys[v.batch.index + 1])

\* playBatchNavigation(instructions, callback)
PlayBatchNavigation ==
  /\ voice.batch.phase = "idle"
  /\ \E keys \in TemplateKeys :
       voice' = playNext([voice EXCEPT !.batch.keys = keys])
  /\ UNCHANGED << component, nav, recent >>

\* the 500 ms pause between two instructions is over
BatchPause ==
  /\ voice.batch.phase = "paused"
  /\ voice' = playNext(voice)
  /\ UNCHANGED << component, nav, recent >>

\* the audio runs to its end: playVoiceUrl's listener, then the batch's
AudioEnded ==
  /\ voice.currentAudio # Null
  /\ LET settled == resolve(onPlayComplete(voice), voice.currentAudio.owner)
     IN voice' = IF voice.currentAudio.heard THEN batchAdvance(settled)
                 ELSE settled
  /\ UNCHANGED << component, nav, recent >>

\* the audio fails: only playVoiceUrl listens to onError
AudioError ==
  /\ voice.currentAudio # Null
  /\ voice' = resolve(onPlayComplete(voice), voice.currentAudio.owner)
  /\ UNCHANGED << component, nav, recent >>

\* the 100 ms timer of a request taken from the queue: it is played again
\* with its priority, and its promise settles the one that was queued
DequeueTimer ==
  /\ voice.dequeued # << >>
  /\ voice' = playVoiceUrl([voice EXCEPT !.dequeued = Tail(@)],
                           Head(voice.dequeued), "normal")
  /\ UNCHANGED << component, nav, recent >>

\* another caller asks for a voice (a page voice, a room voice)
OtherPlay ==
  /\ voice.others < MaxOthers
  /\ \E priority \in { "normal", "urgent" } :
       voice' = playVoiceUrl([voice EXCEPT !.others = @ + 1], "other", priority)
  /\ UNCHANGED << component, nav, recent >>

\* a caller stops the audio (stopCurrentAudio, clearQueue's last line) while
\* something plays
StopCurrentAudio ==
  /\ voice.isPlaying
  /\ voice' = stopCurrentAudio(voice)
  /\ UNCHANGED << component, nav, recent >>

NextVoice ==
  \/ PlayBatchNavigation
  \/ BatchPause
  \/ AudioEnded
  \/ AudioError
  \/ DequeueTimer
  \/ OtherPlay
  \/ StopCurrentAudio

\* an audio left alone finishes one way or the other, and timers fire;
\* nothing obliges a page to ask for a voice or to stop one
SpecVoice ==
  /\ Init
  /\ [][NextVoice]_vars
  /\ WF_vars(AudioEnded \/ AudioError)
  /\ WF_vars(DequeueTimer)
  /\ WF_vars(BatchPause)

\* the batch waits on a promise nothing can resolve any more: its request
\* is not the audio playing, not in the queue and not on a timer
BatchOrphaned ==
  /\ voice.batch.phase = "awaiting"
  /\ voice.currentAudio = Null \/ voice.currentAudio.owner # "batch"
  /\ \A k \in 1..Len(voice.audioQueue) : voice.audioQueue[k] # "batch"
  /\ \A k \in 1..Len(voice.dequeued) : voice.dequeued[k] # "batch"

\* C35: a batch that was started ends by calling its completion callback
C35_BatchCompletes ==
  (voice.batch.phase # "idle") ~> (voice.batch.phase = "done")

\* the batch's audio was stopped before it ended: the batch waits, nothing
\* plays, nothing is queued and no timer is pending
C35_BatchStuckAfterStop ==
  /\ BatchOrphaned
  /\ voice.batch.keys = << "found" >>
  /\ ~voice.isPlaying
  /\ voice.audioQueue = << >>
  /\ voice.dequeued = << >>

(***************************************************************************)
(* The navigation page (pages/navigation/navigation.js).  Of the page's    *)
(* data the model keeps the map, the floor, the target room, the room      *)
(* list, the grid and the loading flag, and beside them                    *)
(*   requests      the map ids of the getMapDetail requests not answered   *)
(*   runs          the batched renderings under way: each is the closure   *)
(*                 of initMapDisplayBatched or updateMapDisplayBatched     *)
(*                 with its pending processBatch timer                     *)
(*   navTimers     the pending timers of startNavigationToRoom             *)
(*   pathRequests  the path requests sent                                  *)
(*   ran, error    the handler that ran last and what it threw             *)
(* A grid is kept as its runs of cells read from one source: the map and   *)
(* the floor getCellType looked at.                                        *)
(***************************************************************************)

\* taps, floor changes, stops and map choices of the user
MaxNavEvents == 4

\* batched renderings under way when the user acts
MaxRuns == 2

\* a flat map of 1200 cells
NavHall ==
  [name |-> "hall", is_3d |-> FALSE, width |-> 40, height |-> 30,
   floors |-> << >>, rooms |-> { 1, 2 }]

\* a map of three floors of 1200, 1500 and 400 cells
NavTower ==
  [name |-> "tower", is_3d |-> TRUE, width |-> 40, height |-> 30,
   floors |-> << [width |-> 40, height_grid |-> 30],
                 [width |-> 50, height_grid |-> 30],
                 [width |-> 20, height_grid |-> 20] >>,
   rooms |-> { 1, 2 }]

\* the maps of the server, by id
NavMaps == << NavHall, NavTower >>

\* the floors of the floor buttons
NavFloors == 1..3

\* the rooms of the room list
NavRooms == 1..2

\* a handler starts
Enter(d, handler) == [d EXCEPT !.ran = handler, !.error = Null]

\* a user's handler starts
UserEnter(d, handler) == [Enter(d, handler) EXCEPT !.userEvents = @ + 1]

\* reading a property of null
ThrowTypeError(d, at) == [d EXCEPT !.error = [name |-> "TypeError", at |-> at]]

\* a sequence without its i-th element
Without(seq, i) == SubSeq(seq, 1, i - 1) \o SubSeq(seq, i + 1, Len(seq))

\* getCurrentMapDimensions
getCurrentMapDimensions(d) ==
  IF d.mapData = Null THEN [width |-> 0, height |-> 0]
  ELSE IF d.isReal3DMap /\ d.currentFloor \in DOMAIN d.mapData.floors
  THEN [width |-> d.mapData.floors[d.currentFloor].width,
        height |-> d.mapData.floors[d.currentFloor].height_grid]
  ELSE [width |-> d.mapData.width, height |-> d.mapData.height]

\* getCellType: what a cell is read from, the current floor of a 3D map or
\* the main grid (0) of a flat one
getCellType(d) ==
  [map |-> d.mapData.name, floor |-> IF d.isReal3DMap THEN d.currentFloor ELSE 0]

\* mapGrid.push(cellData), n times with the page's data as it is now
PushCells(mapGrid, n, d) ==
  IF mapGrid # << >> /\ mapGrid[Len(mapGrid)].source = getCellType(d)
  THEN [mapGrid EXCEPT ![Len(mapGrid)].cells = @ + n]
  ELSE Append(mapGrid, [cells |-> n, source |-> getCellType(d)])

\* createMapGrid
createMapGrid(d, dimensions) ==
  PushCells(<< >>, dimensions.width * dimensions.height, d)

\* initMapDisplayDirect and updateMapDisplayDirect
MapDisplayDirect(d, dimensions) ==
  [d EXCEPT !.mapGrid = createMapGrid(d, dimensions)]

\* the closure of a batched rendering, its first timer set
BatchRun(dimensions, batchSize, init) ==
  [batchSize |-> batchSize, init |-> init,
   totalCells |-> dimensions.width * dimensions.height,
   processedCells |-> 0, mapGrid |-> << >>]

\* initMapDisplayBatched
initMapDisplayBatched(d, dimensions) ==
  [d EXCEPT !.loading = TRUE,
            !.runs = Append(@, BatchRun(dimensions, 200, TRUE))]

\* updateMapDisplayBatched
updateMapDisplayBatched(d, dimensions) ==
  [d EXCEPT !.runs = Append(@, BatchRun(dimensions, 300, FALSE))]

\* initMapDisplay
initMapDisplay(d) ==
  LET dimensions == getCurrentMapDimensions(d)
  IN IF d.mapData = Null \/ dimensions.width * dimensions.height <= 0 THEN d
     ELSE IF dimensions.width * dimensions.height > 1000
     THEN initMapDisplayBatched(d, dimensions)
     ELSE MapDisplayDirect(d, dimensions)

\* updateMapDisplay
updateMapDisplay(d) ==
  LET dimensions == getCurrentMapDimensions(d)
  IN IF d.mapData = Null THEN d
     ELSE IF dimensions.width * dimensions.height > 1000
     THEN updateMapDisplayBatched(d, dimensions)
     ELSE MapDisplayDirect(d, dimensions)

\* processBatch of the i-th rendering under way: a batch of cells, then the
\* next timer or, after the last cell, the grid is stored
processBatch(d, i) ==
  LET run == d.runs[i]
      left == run.totalCells - run.processedCells
      n == IF left < run.batchSize THEN left ELSE run.batchSize
      mapGrid == PushCells(run.mapGrid, n, d)
  IN IF run.processedCells + n < run.totalCells
     THEN [d EXCEPT !.runs[i].processedCells = @ + n,
                    !.runs[i].mapGrid = mapGrid]
     ELSE [d EXCEPT !.runs = Without(@, i),
                    !.mapGrid = mapGrid,
                    !.loading = IF run.init THEN FALSE ELSE @]

\* the first of the sorted floor numbers
FirstFloor(floors) == CHOOSE f \in DOMAIN floors : \A g \in DOMAIN floors : f <= g

\* _processMapData with loadMapData's callback: reading map_type of null
\* throws; else the map is set, shown, and its rooms are listed
processMapData(d, mapData) ==
  IF mapData = Null THEN ThrowTypeError(d, "_processMapData")
  ELSE LET set == [d EXCEPT !.mapData = mapData,
                            !.isReal3DMap = mapData.is_3d,
                            !.loading = FALSE,
                            !.currentFloor =
                               IF mapData.is_3d /\ mapData.floors # << >>
                               THEN FirstFloor(mapData.floors) ELSE @]
       IN [initMapDisplay(set) EXCEPT !.allRooms = mapData.rooms]

\* loadMapData, up to the request
loadMapData(d, mapId) ==
  [d EXCEPT !.loading = TRUE, !.mapId = mapId, !.targetRoom = Null,
            !.requests = Append(@, mapId)]

\* startActualNavigation: reading targetRoom.id of null throws, after the
\* loading flag is set
startActualNavigation(d) ==
  IF d.targetRoom = Null
  THEN ThrowTypeError([d EXCEPT !.loading = TRUE], "startActualNavigation")
  ELSE [d EXCEPT !.loading = TRUE, !.pathRequests = @ + 1]

\* startNavigationToRoom
startNavigationToRoom(d) ==
  IF d.targetRoom = Null THEN d
  ELSE [initMapDisplay(d) EXCEPT !.navTimers = @ + 1]

\* selectRoomFirstTime: updateTargetMarker marks one cell of the grid and
\* leaves what the cells were read from
selectRoomFirstTime(d, selectedRoom) ==
  [d EXCEPT !.targetRoom = [id |-> selectedRoom]]

\* onRoomTap
onRoomTap(d, roomId) ==
  IF roomId \notin d.allRooms THEN d
  ELSE IF d.targetRoom # Null /\ d.targetRoom.id = roomId
  THEN startNavigationToRoom(d)
  ELSE selectRoomFirstTime(d, roomId)

\* stopNavigation
stopNavigation(d) == updateMapDisplay([d EXCEPT !.targetRoom = Null])

\* onFloorChange
onFloorChange(d, floor) == initMapDisplay([d EXCEPT !.currentFloor = floor])

\* a handler that may start a batched rendering runs while fewer than the
\* bound are under way
RunsFree == Len(nav.runs) < MaxRuns

\* the user may act: the page is shown and the bounds are not met
UserActs == ~nav.unloaded /\ nav.userEvents < MaxNavEvents /\ RunsFree

\* a map is chosen (onLoad with a map id, the map selector)
LoadMap ==
  /\ UserActs
  /\ \E mapId \in DOMAIN NavMaps :
       nav' = loadMapData(UserEnter(nav, "loadMapData"), mapId)
  /\ UNCHANGED << component, voice, recent >>

\* getMapDetail's request succeeds
MapDetailSuccess ==
  /\ RunsFree
  /\ \E i \in DOMAIN nav.requests :
       nav' = processMapData(
                Enter([nav EXCEPT !.requests = Without(@, i)], "getMapDetail.success"),
                NavMaps[nav.requests[i]])
  /\ UNCHANGED << component, voice, recent >>

\* getMapDetail's request fails: callback(null)
MapDetailFail ==
  /\ \E i \in DOMAIN nav.requests :
       nav' = processMapData(
                Enter([nav EXCEPT !.requests = Without(@, i)], "getMapDetail.fail"),
                Null)
  /\ UNCHANGED << component, voice, recent >>

\* a processBatch timer fires
ProcessBatch ==
  /\ \E i \in DOMAIN nav.runs : nav' = processBatch(Enter(nav, "processBatch"), i)
  /\ UNCHANGED << component, voice, recent >>

\* a floor button
OnFloorChange ==
  /\ UserActs
  /\ \E floor \in NavFloors :
       nav' = onFloorChange(UserEnter(nav, "onFloorChange"), floor)
  /\ UNCHANGED << component, voice, recent >>

\* a tap on a room of the list
OnRoomTap ==
  /\ UserActs
  /\ \E roomId \in NavRooms : nav' = onRoomTap(UserEnter(nav, "onRoomTap"), roomId)
  /\ UNCHANGED << component, voice, recent >>

\* the 500 or 800 ms timer of startNavigationToRoom fires
NavigationTimer ==
  /\ nav.navTimers > 0
  /\ nav' = startActualNavigation(
              Enter([nav EXCEPT !.navTimers = @ - 1], "startActualNavigation"))
  /\ UNCHANGED << component, voice, recent >>

\* the stop button
StopNavigation ==
  /\ UserActs
  /\ nav' = stopNavigation(UserEnter(nav, "stopNavigation"))
  /\ UNCHANGED << component, voice, recent >>

\* the page is closed; its timers and requests stay pending
OnUnload ==
  /\ ~nav.unloaded
  /\ RunsFree
  /\ nav' = [stopNavigation(Enter(nav, "onUnload")) EXCEPT !.unloaded = TRUE]
  /\ UNCHANGED << component, voice, recent >>

NextNav ==
  \/ LoadMap
  \/ MapDetailSuccess
  \/ MapDetailFail
  \/ ProcessBatch
  \/ OnFloorChange
  \/ OnRoomTap
  \/ NavigationTimer
  \/ StopNavigation
  \/ OnUnload

SpecNav == Init /\ [][NextNav]_vars

\* the TypeError of reading a property of null, thrown at a place
TypeErrorAt(at) == [name |-> "TypeError", at |-> at]

\* C36: the delayed path calculation fires only while a target room is
\* selected: whenever startActualNavigation runs, targetRoom is not null
C36_TargetWhenTimerFires ==
  [][nav'.ran = "startActualNavigation" => nav.targetRoom # Null]_vars

\* the timer of startNavigationToRoom has fired after the target room was
\* cleared: startActualNavigation has set the loading flag and thrown on
\* targetRoom.id, and no path request was sent
C36_StartedWithoutTarget ==
  /\ nav.ran = "startActualNavigation"
  /\ nav.targetRoom = Null
  /\ nav.error = TypeErrorAt("startActualNavigation")
  /\ nav.loading
  /\ nav.pathRequests = 0

\* every cell of a grid was read from the floor that is current
GridOfCurrentFloor(d) ==
  \A k \in DOMAIN d.mapGrid : d.mapGrid[k].source = getCellType(d)

\* C37: when the last batch of the batched renderings completes, the grid
\* it stores has every cell computed for the floor that is current then
C37_GridOfOneFloor ==
  [][(nav'.ran = "processBatch" /\ nav'.runs = << >>) => GridOfCurrentFloor(nav')]_vars

\* the rendering of floor 1 of the tower went on after the change to the
\* small floor 3: the last batch has stored 200 cells of floor 1 followed
\* by 1000 cells of floor 3
C37_MixedGridStored ==
  /\ nav.ran = "processBatch"
  /\ nav.runs = << >>
  /\ nav.currentFloor = 3
  /\ nav.mapGrid = << [cells |-> 200, source |-> [map |-> "tower", floor |-> 1]],
                      [cells |-> 1000, source |-> [map |-> "tower", floor |-> 3]] >>

\* C38: a failed load of the map detail leaves the page out of the loading
\* state, with the map data it had and no exception raised
C38_FailedLoadEndsLoading ==
  [][nav'.ran = "getMapDetail.fail"
       => ~nav'.loading /\ nav'.error = Null /\ nav'.mapData = nav.mapData]_vars

\* the load of a second map has failed over a shown map: _processMapData
\* has thrown on null, the loading flag set by loadMapData stays, and no
\* request, rendering or timer is left that could clear it
C38_StuckLoading ==
  /\ nav.ran = "getMapDetail.fail"
  /\ nav.error = TypeErrorAt("_processMapData")
  /\ nav.loading
  /\ nav.mapData = NavHall
  /\ nav.requests = << >>
  /\ nav.runs = << >>
  /\ nav.navTimers = 0

(***************************************************************************)
(* The recent maps (index page and map list page).  Both pages keep the    *)
(* list in the storage under 'recentMaps'; an entry is written here as its *)
(* id and name, without the time of its use.                               *)
(*   stored      the list in the storage                                   *)
(*   recentMaps  the index page's data.recentMaps                          *)
(*   saved       the map info of the last save that reached the storage    *)
(***************************************************************************)

\* the map cards: ids 1..MaxMapId, and 0 for a card without an id
MaxMapId == 6

\* the map info a card gives
MapInfo(mapId) == [id |-> mapId, name |-> mapId + 100]

\* recent.slice(0, n)
Slice(seq, n) == SubSeq(seq, 1, IF Len(seq) < n THEN Len(seq) ELSE n)

\* recent.filter(item => item.id !== id)
RECURSIVE FilterOut(_, _)
FilterOut(seq, id) ==
  IF seq = << >> THEN << >>
  ELSE IF Head(seq).id = id THEN FilterOut(Tail(seq), id)
  ELSE << Head(seq) >> \o FilterOut(Tail(seq), id)

\* saveRecentMap without the removal of the same map
saveRecentMapKeepSame(stored, mapInfo) == Slice(<< mapInfo >> \o stored, 5)

\* saveRecentMap: the list written to the storage
saveRecentMap(stored, mapInfo) ==
  Slice(<< mapInfo >> \o FilterOut(stored, mapInfo.id), 5)

\* onMapTap of the index page: a card with an id is saved, and the first
\* two are shown; a storage that throws leaves everything as it was
IndexMapTap ==
  /\ \E mapId \in 0..MaxMapId, storageWorks \in BOOLEAN :
       IF mapId = 0 \/ ~storageWorks THEN UNCHANGED recent
       ELSE recent' = [stored |-> saveRecentMap(recent.stored, MapInfo(mapId)),
                       recentMaps |-> Slice(saveRecentMap(recent.stored, MapInfo(mapId)), 2),
                       saved |-> MapInfo(mapId)]
  /\ UNCHANGED << component, voice, nav >>

\* onMapTap of the map list page: the same without the index page's data
MapListTap ==
  /\ \E mapId \in 0..MaxMapId, storageWorks \in BOOLEAN :
       IF mapId = 0 \/ ~storageWorks THEN UNCHANGED recent
       ELSE recent' = [recent EXCEPT
                         !.stored = saveRecentMap(recent.stored, MapInfo(mapId)),
                         !.saved = MapInfo(mapId)]
  /\ UNCHANGED << component, voice, nav >>

NextRecent == IndexMapTap \/ MapListTap

SpecRecent == Init /\ [][NextRecent]_vars

\* the ids of a list, in its order
Ids(seq) == [k \in DOMAIN seq |-> seq[k].id]

\* no id twice
NoTwice(ids) ==
  \A j, k \in DOMAIN ids : j # k => ids[j] # ids[k]

\* C39: after any saves the stored list has at most 5 entries, no map id
\* twice, and the map saved last in front
C39_RecentListKept ==
  /\ Len(recent.stored) <= 5
  /\ NoTwice(Ids(recent.stored))
  /\ recent.saved # Null => recent.stored # << >> /\ recent.stored[1] = recent.saved

\* six maps were saved, which pushed map 1 out, and map 3 was saved again
\* and moved to the front
C39_SixthSavedAndOneAgain ==
  /\ recent.saved = MapInfo(3)
  /\ Ids(recent.stored) = << 3, 6, 5, 4, 2 >>
====
